---- MODULE Spec2Model ----
(***************************************************************************)
(* Adaptive strategy selection of the trading bot: the three selectors     *)
(* (AdaptiveStrategy, EnhancedAdaptiveStrategy,                            *)
(* SmallCapitalAdaptiveStrategy), their scorers, the market analysis, the  *)
(* risk adjuster and the polling loop of run_bot.                          *)
(*                                                                         *)
(* Numbers are fixed point.  Scores and confidences are hundredths,        *)
(* affinity weights are tenths.  A combined score is kept as the numerator *)
(* of an exact fraction over 10000 * T, where T is the sum of the affinity *)
(* weights of the cycle (in tenths), so that comparisons of combined       *)
(* scores are exact rational comparisons.                                  *)
(***************************************************************************)
EXTENDS Integers, Sequences, FiniteSets, TLC

VARIABLES
    variant,                    \* class of the selector instance
    current_strategy,           \* self.current_strategy
    consecutive_same_strategy,  \* self.consecutive_same_strategy
    strategy_changes,           \* self.strategy_changes (change log)
    previous_regime,            \* market_analyzer.previous_regime / self.market_regime
    cycles,                     \* number of calls made on the instance
    result,                     \* what the last call did and returned
    input,                      \* the data a call is made on, where a specification fixes it
    pc,                         \* run_bot: the step of the polling loop that runs next
    consecutive_failures,       \* run_bot: consecutive_failures
    signal,                     \* run_bot: signal of the current cycle
    strategy_failed,            \* run_bot: the strategy call of this cycle raised
    order_placed,               \* run_bot: an order was sent in this cycle
    polls,                      \* run_bot: completed passes of the loop
    exit,                       \* run_bot: what ended the loop
    caught,                     \* run_bot: the step whose exception the loop handled last
    historical_regimes,         \* self.historical_regimes of the enhanced / small-capital selector
    last_buy_price,             \* SmallCapitalAdaptiveStrategy.last_buy_price
    last_trade_time,            \* SmallCapitalAdaptiveStrategy.last_trade_time
    historical_signals,         \* AdaptiveStrategy.historical_signals
    historical_results,         \* AdaptiveStrategy.historical_results
    day_trader,                 \* the fields of the SimpleDayTraderStrategy instance
    today,                      \* datetime.now().date(), as a day number
    factory,                    \* StrategyFactory._initialized and the keys of _strategies
    current_position,           \* run_bot: current_position
    entry_price,                \* run_bot: entry_price
    orders,                     \* run_bot: the orders sent to the exchange in the current pass
    trades                      \* performance_tracker: the trades added by run_bot

selectorVars == <<variant, current_strategy, consecutive_same_strategy,
                  strategy_changes, previous_regime, cycles, result>>

\* the locals of run_bot and the position of its loop
botVars == <<pc, consecutive_failures, signal, strategy_failed, order_placed, polls,
             exit, caught>>

\* the fields of the other strategy objects, the factory and the order
\* branch of run_bot
hostVars == <<last_buy_price, last_trade_time, historical_signals, historical_results,
              day_trader, today, factory, current_position, entry_price, orders,
              trades>>

vars == <<selectorVars, input, botVars, historical_regimes, hostVars>>

-----------------------------------------------------------------------------
(* Bounds of the model *)

MaxCycles == 2

-----------------------------------------------------------------------------
(* Catalog and configuration data *)

None == "None"

\* catalog iteration order of available_strategies
Catalog == <<"SMA_CROSSOVER", "RSI", "MACD", "BOLLINGER_BANDS", "MULTI_INDICATOR">>

Strategies == {Catalog[i] : i \in 1..Len(Catalog)}

Variants == {"ADAPTIVE", "ENHANCED", "SMALL_CAPITAL"}

SAVE_STRATEGY_CHANGES == TRUE

Regimes == {"strong_uptrend", "weak_uptrend", "strong_downtrend", "weak_downtrend",
            "ranging_narrow", "ranging_wide", "breakout_potential",
            "high_volatility", "low_volatility"}

\* MarketRegimeDetector.regime_strategy_weights, in tenths
regime_strategy_weights ==
    [r \in Regimes |->
        CASE r = "strong_uptrend"     -> [SMA_CROSSOVER |-> 8, RSI |-> 4, MACD |-> 9, BOLLINGER_BANDS |-> 3, MULTI_INDICATOR |-> 7]
          [] r = "weak_uptrend"       -> [SMA_CROSSOVER |-> 6, RSI |-> 5, MACD |-> 8, BOLLINGER_BANDS |-> 4, MULTI_INDICATOR |-> 7]
          [] r = "strong_downtrend"   -> [SMA_CROSSOVER |-> 3, RSI |-> 8, MACD |-> 7, BOLLINGER_BANDS |-> 6, MULTI_INDICATOR |-> 7]
          [] r = "weak_downtrend"     -> [SMA_CROSSOVER |-> 4, RSI |-> 7, MACD |-> 6, BOLLINGER_BANDS |-> 5, MULTI_INDICATOR |-> 7]
          [] r = "ranging_narrow"     -> [SMA_CROSSOVER |-> 2, RSI |-> 9, MACD |-> 3, BOLLINGER_BANDS |-> 8, MULTI_INDICATOR |-> 6]
          [] r = "ranging_wide"       -> [SMA_CROSSOVER |-> 3, RSI |-> 8, MACD |-> 4, BOLLINGER_BANDS |-> 9, MULTI_INDICATOR |-> 7]
          [] r = "breakout_potential" -> [SMA_CROSSOVER |-> 6, RSI |-> 7, MACD |-> 8, BOLLINGER_BANDS |-> 9, MULTI_INDICATOR |-> 8]
          [] r = "high_volatility"    -> [SMA_CROSSOVER |-> 3, RSI |-> 5, MACD |-> 6, BOLLINGER_BANDS |-> 7, MULTI_INDICATOR |-> 9]
          [] r = "low_volatility"     -> [SMA_CROSSOVER |-> 4, RSI |-> 6, MACD |-> 5, BOLLINGER_BANDS |-> 8, MULTI_INDICATOR |-> 7]]

AdaptiveRegimes == {"bullish", "bearish", "ranging", "volatile"}

\* AdaptiveStrategy.regime_weights, in tenths
regime_weights ==
    [r \in AdaptiveRegimes |->
        CASE r = "bullish"  -> [SMA_CROSSOVER |-> 7, RSI |-> 5, MACD |-> 8, BOLLINGER_BANDS |-> 3, MULTI_INDICATOR |-> 6]
          [] r = "bearish"  -> [SMA_CROSSOVER |-> 4, RSI |-> 7, MACD |-> 6, BOLLINGER_BANDS |-> 8, MULTI_INDICATOR |-> 6]
          [] r = "ranging"  -> [SMA_CROSSOVER |-> 3, RSI |-> 8, MACD |-> 4, BOLLINGER_BANDS |-> 9, MULTI_INDICATOR |-> 5]
          [] r = "volatile" -> [SMA_CROSSOVER |-> 2, RSI |-> 5, MACD |-> 6, BOLLINGER_BANDS |-> 7, MULTI_INDICATOR |-> 9]]

\* SmallCapitalAdaptiveStrategy.small_capital_weights, in tenths
small_capital_weights ==
    [SMA_CROSSOVER |-> 12, RSI |-> 13, MACD |-> 10, BOLLINGER_BANDS |-> 14, MULTI_INDICATOR |-> 11]

VolumePressures == {"strong_buying", "weak_buying", "neutral", "weak_selling",
                    "strong_selling", "unknown"}

-----------------------------------------------------------------------------
(* AdvancedMarketAnalysis.analyze: the recommended strategy weights *)

\* the weights before normalisation, in tenths; double_top is TRUE when a
\* double top was reported with confidence above 0.7
AdjustedWeights(regime, double_top, volume_pressure) ==
    LET w == regime_strategy_weights[regime]
        a == IF double_top
             THEN [w EXCEPT !.RSI = @ + 2, !.BOLLINGER_BANDS = @ + 1]
             ELSE w
    IN  CASE volume_pressure = "strong_buying"  -> [a EXCEPT !.MACD = @ + 1, !.SMA_CROSSOVER = @ + 1]
          [] volume_pressure = "strong_selling" -> [a EXCEPT !.RSI = @ + 1]
          [] OTHER                              -> a

\* total_weight; the normalised weight of s is w[s] / TotalWeight(w)
TotalWeight(w) ==
    w.SMA_CROSSOVER + w.RSI + w.MACD + w.BOLLINGER_BANDS + w.MULTI_INDICATOR

-----------------------------------------------------------------------------
(* Combined score and argmax of select_best_strategy *)

ADAPTIVE_LOOKBACK_PERIOD == 30

SmallCapitalLookback == 15

AdaptiveLookback == 20

\* minimum number of candles AdvancedMarketAnalysis.analyze needs
AnalyzeMinLen == 30

\* minimum number of candles AdaptiveStrategy.select_best_strategy needs
AdaptiveSelectMinLen == 20

\* minimum number of candles AdaptiveStrategy.adaptive_strategy needs
AdaptiveDecideMinLen == 10

\* lookback_period of the singleton instance of each selector
LookbackOf(v) ==
    CASE v = "ENHANCED"      -> ADAPTIVE_LOOKBACK_PERIOD
      [] v = "SMALL_CAPITAL" -> SmallCapitalLookback
      [] OTHER               -> AdaptiveLookback

\* fewest candles for which evaluate_strategy_performance replays the catalog
ScorerMinLen(v) ==
    IF v = "ADAPTIVE" THEN LookbackOf(v) + 10 ELSE LookbackOf(v) + 5

\* the condition under which SmallCapitalAdaptiveStrategy lowers all scores
Bearish(regime, volume_pressure) ==
    \/ regime \in {"strong_downtrend", "weak_downtrend"}
    \/ volume_pressure = "strong_selling"

\* combined_scores[s] as the numerator of a fraction over 10000 * T:
\* perf is the performance score in hundredths, w the affinity weight in
\* tenths and T the normaliser of the weights in tenths
CombinedScore(v, s, perf, w, T, bearish) ==
    IF v = "SMALL_CAPITAL"
    THEN IF bearish
         THEN 40 * perf * T + 2400 * w + 400 * (small_capital_weights[s] - 10) * T
         ELSE 50 * perf * T + 3000 * w + 500 * (small_capital_weights[s] - 10) * T
    ELSE 60 * perf * T + 4000 * w

\* a switching margin of 0.05
NarrowMargin(v, T) == 500 * T

\* the switching margin over the same denominator (0.15 and 0.20)
SwitchMargin(v, T) ==
    IF v = "SMALL_CAPITAL" THEN 2000 * T ELSE 1500 * T

\* a scan in which a later item also replaces an equal running maximum
BetterOrEqual(x, best) == x >= best

\* comparison made by max() while it scans the items: a later item replaces
\* the running maximum only when its key is strictly greater
Better(x, best) == x > best

RECURSIVE PyMaxFrom(_, _, _)
PyMaxFrom(score, i, best) ==
    IF i > Len(Catalog)
    THEN best
    ELSE PyMaxFrom(score, i + 1,
                   IF Better(score[Catalog[i]], score[best]) THEN Catalog[i] ELSE best)

\* max(combined_scores.items(), key=lambda x: x[1])[0]
PyMax(score) == PyMaxFrom(score, 2, Catalog[1])

\* a hysteresis test that forgets the switching margin
KeepsActiveNoMargin(candidate_score, active_score, margin) ==
    candidate_score < active_score

\* the hysteresis test: the candidate is rejected and the active strategy kept
KeepsActive(candidate_score, active_score, margin) ==
    candidate_score < active_score + margin

\* the margin of the candidate over the active strategy, relative to the
\* switching margin (what the 'reason' of a change-log entry reports)
Gap(candidate_score, active_score, margin) ==
    IF candidate_score - active_score < margin THEN "below"
    ELSE IF candidate_score - active_score = margin THEN "equal"
    ELSE "above"

STRATEGY_CHANGE_THRESHOLD == 15

\* a change-log entry with its ends exchanged
ChangeEntrySwapped(from, to, regime) ==
    [from |-> to, to |-> from, market_regime |-> regime]

\* the entry appended to strategy_changes on an accepted switch (its 'time'
\* is the wall clock and its 'reason' the formatted margin)
ChangeEntry(from, to, regime) ==
    [from |-> from, to |-> to, market_regime |-> regime]

\* the highest combined score among the strategies other than best
RunnerUpScore(combined, best) ==
    CHOOSE x \in {combined[s] : s \in Strategies \ {best}} :
        \A s \in Strategies \ {best} : combined[s] <= x

\* the two best combined scores differ by less than STRATEGY_CHANGE_THRESHOLD
TopTwoClose(combined, best, T) ==
    combined[best] - RunnerUpScore(combined, best) < STRATEGY_CHANGE_THRESHOLD * 100 * T

\* the active strategy is one of the two best of the cycle
ActiveInTopTwo(combined, best, cur) ==
    cur # None /\ combined[cur] >= RunnerUpScore(combined, best)

\* the normaliser of the affinity weights of a cycle, in tenths: the sum of
\* the adjusted weights where analyze normalises them, 10 for the plain
\* table of AdaptiveStrategy
Normaliser(v, regime, double_top, volume_pressure) ==
    IF v = "ADAPTIVE"
    THEN 10
    ELSE TotalWeight(AdjustedWeights(regime, double_top, volume_pressure))

\* combined_scores of a cycle
CombinedScores(v, regime, double_top, volume_pressure, perf) ==
    LET w == IF v = "ADAPTIVE"
             THEN regime_weights[regime]
             ELSE AdjustedWeights(regime, double_top, volume_pressure)
        T == Normaliser(v, regime, double_top, volume_pressure)
        bearish == v = "SMALL_CAPITAL" /\ Bearish(regime, volume_pressure)
    IN  [s \in Strategies |-> CombinedScore(v, s, perf[s], w[s], T, bearish)]

\* all five performance scores of the cycle are equal
EqualPerformance(perf) ==
    \A s, t \in Strategies : perf[s] = perf[t]

\* a counter that an accepted switch does not reset
CountsEveryCycle(cur, switch, cnt) ==
    IF cur = None THEN 0 ELSE cnt + 1

\* consecutive_same_strategy after the hysteresis block: 0 after the first
\* selection and after an accepted switch, one more otherwise
SameStrategyCount(cur, switch, cnt) ==
    IF cur = None \/ switch THEN 0 ELSE cnt + 1

\* EnhancedAdaptiveStrategy / SmallCapitalAdaptiveStrategy.select_best_strategy
\* on a series long enough for the analysis: the state it leaves and what it
\* returns.  perf is the result of evaluate_strategy_performance.
HysteresisSelect(v, cur, cnt, log, regime, double_top, volume_pressure, perf) ==
    LET T        == Normaliser(v, regime, double_top, volume_pressure)
        combined == CombinedScores(v, regime, double_top, volume_pressure, perf)
        best     == PyMax(combined)
        contest  == cur # None /\ best # cur
        keep     == contest /\ KeepsActive(combined[best], combined[cur], SwitchMargin(v, T))
        switch   == contest /\ ~keep
        chosen   == IF keep THEN cur ELSE best
        newlog   == IF switch
                    THEN Append(log, ChangeEntry(cur, best, regime))
                    ELSE log
        newcnt   == SameStrategyCount(cur, switch, cnt)
        raises   == SAVE_STRATEGY_CHANGES /\ newlog # <<>>
    IN  [current   |-> chosen,
         count     |-> newcnt,
         changes   |-> newlog,
         regime    |-> regime,
         candidate |-> best,
         gap       |-> IF contest
                       THEN Gap(combined[best], combined[cur], SwitchMargin(v, T))
                       ELSE "none",
         close     |-> TopTwoClose(combined, best, T),
         held      |-> ActiveInTopTwo(combined, best, cur),
         equal_performance |-> EqualPerformance(perf),
         outcome   |-> IF raises THEN "raised" ELSE "returned",
         error     |-> IF raises THEN "AttributeError" ELSE "none"]

\* AdaptiveStrategy.select_best_strategy on a series of at least 20 candles
PlainSelect(cur, cnt, log, regime, perf) ==
    LET combined == CombinedScores("ADAPTIVE", regime, FALSE, "neutral", perf)
        best     == PyMax(combined)
        contest  == cur # None /\ best # cur
    IN  [current   |-> best,
         count     |-> cnt,
         changes   |-> log,
         regime    |-> regime,
         candidate |-> best,
         gap       |-> IF contest
                       THEN Gap(combined[best], combined[cur], SwitchMargin("ADAPTIVE", 10))
                       ELSE "none",
         close     |-> TopTwoClose(combined, best, 10),
         held      |-> ActiveInTopTwo(combined, best, cur),
         equal_performance |-> EqualPerformance(perf),
         outcome   |-> "returned",
         error     |-> "none"]

-----------------------------------------------------------------------------
(* Calls of select_best_strategy on one selector instance *)

\* performance scores a scorer hands to the selector, in hundredths
PerfLevels == {50, 75}

PerfVectors == [Strategies -> PerfLevels]

\* volume pressures that are told apart by the analysis and the selectors
VolumeInputs == {"strong_buying", "neutral", "strong_selling"}

\* series lengths below the minimum of the selector
ShortLens == {0, 1, 4, 10, 19, 20, 29}

\* the other strategy objects after construction, the factory before its
\* first use and run_bot with no position
HostStart ==
    /\ last_buy_price = 0
    /\ last_trade_time = None
    /\ historical_signals = <<>>
    /\ historical_results = <<>>
    /\ today = 1
    /\ day_trader = [daily_profit |-> 0, daily_trades |-> 0, current_day |-> 1,
                     last_trade_time |-> None, last_trade_type |-> None,
                     last_trade_price |-> 0, performance_history |-> <<>>,
                     daily_profit_target |-> 30, max_daily_loss |-> 20]
    /\ factory = [initialized |-> FALSE, strategies |-> {}]
    /\ current_position = 0
    /\ entry_price = 0
    /\ orders = <<>>
    /\ trades = <<>>

\* run_bot on entering its loop
BotStart ==
    /\ pc = "fetch"
    /\ consecutive_failures = 0
    /\ signal = 0
    /\ strategy_failed = FALSE
    /\ order_placed = FALSE
    /\ polls = 0
    /\ exit = "none"
    /\ caught = "none"

NoResult ==
    [op |-> "none", outcome |-> "none", error |-> "none", prev |-> None,
     candidate |-> None, gap |-> "none", close |-> FALSE, held |-> FALSE,
     equal_performance |-> FALSE, selected |-> None]

Init ==
    /\ variant \in Variants
    /\ current_strategy = None
    /\ consecutive_same_strategy = 0
    /\ strategy_changes = <<>>
    /\ previous_regime = None
    /\ cycles = 0
    /\ result = NoResult
    /\ input = None
    /\ BotStart
    /\ historical_regimes = <<>>
    /\ HostStart

\* select_best_strategy on a series too short for the selector:
\* AdaptiveStrategy returns its default, the other two fail on the missing
\* 'recommended_strategy_weights' of the insufficient-data analysis
SelectInsufficient(n) ==
    /\ cycles < MaxCycles
    /\ IF variant = "ADAPTIVE" THEN n < AdaptiveSelectMinLen ELSE n < AnalyzeMinLen
    /\ cycles' = cycles + 1
    /\ result' = [NoResult EXCEPT
                    !.op = "select",
                    !.prev = current_strategy,
                    !.outcome = IF variant = "ADAPTIVE" THEN "returned" ELSE "raised",
                    !.error = IF variant = "ADAPTIVE" THEN "none" ELSE "KeyError",
                    !.selected = IF variant = "ADAPTIVE" THEN "MULTI_INDICATOR" ELSE None]
    /\ UNCHANGED <<variant, current_strategy, consecutive_same_strategy,
                   strategy_changes, previous_regime, input, historical_regimes, hostVars, botVars>>

\* the state and result left by a completed selection r
Selected(r) ==
    /\ cycles' = cycles + 1
    /\ current_strategy' = r.current
    /\ consecutive_same_strategy' = r.count
    /\ strategy_changes' = r.changes
    /\ previous_regime' = r.regime
    /\ result' = [op |-> "select", outcome |-> r.outcome, error |-> r.error,
                  prev |-> current_strategy, candidate |-> r.candidate,
                  gap |-> r.gap, close |-> r.close, held |-> r.held,
                  equal_performance |-> r.equal_performance,
                  selected |-> IF r.outcome = "returned" THEN r.current ELSE None]
    /\ UNCHANGED <<variant, input, historical_regimes, hostVars, botVars>>

\* EnhancedAdaptiveStrategy / SmallCapitalAdaptiveStrategy.select_best_strategy
SelectBestStrategy(regime, double_top, volume_pressure, perf) ==
    /\ cycles < MaxCycles
    /\ variant \in {"ENHANCED", "SMALL_CAPITAL"}
    /\ Selected(HysteresisSelect(variant, current_strategy, consecutive_same_strategy,
                                 strategy_changes, regime, double_top,
                                 volume_pressure, perf))

\* AdaptiveStrategy.select_best_strategy
AdaptiveSelectBestStrategy(regime, perf) ==
    /\ cycles < MaxCycles
    /\ variant = "ADAPTIVE"
    /\ Selected(PlainSelect(current_strategy, consecutive_same_strategy,
                            strategy_changes, regime, perf))

\* select_best_strategy of the enhanced or small-capital selector when a
\* catalog strategy raises during the replay: the analysis has run, the
\* exception leaves evaluate_strategy_performance and the selection
SelectScoringFails(regime) ==
    /\ cycles < MaxCycles
    /\ variant \in {"ENHANCED", "SMALL_CAPITAL"}
    /\ cycles' = cycles + 1
    /\ previous_regime' = regime
    /\ result' = [NoResult EXCEPT !.op = "select", !.prev = current_strategy,
                                  !.outcome = "raised", !.error = "StrategyError"]
    /\ UNCHANGED <<variant, current_strategy, consecutive_same_strategy,
                   strategy_changes, input, historical_regimes, hostVars, botVars>>

Next ==
    \/ \E n \in ShortLens : SelectInsufficient(n)
    \/ \E regime \in Regimes, double_top \in BOOLEAN,
          volume_pressure \in VolumeInputs, perf \in PerfVectors :
            SelectBestStrategy(regime, double_top, volume_pressure, perf)
    \/ \E regime \in AdaptiveRegimes, perf \in PerfVectors :
            AdaptiveSelectBestStrategy(regime, perf)
    \/ \E regime \in Regimes : SelectScoringFails(regime)

Spec == Init /\ [][Next]_vars

-----------------------------------------------------------------------------
(* Hysteresis of the enhanced and small-capital selectors *)

Hysteretic == variant \in {"ENHANCED", "SMALL_CAPITAL"}

\* the step is a selection cycle in which a strategy was active and the
\* argmax candidate differed from it
ContestedCycle ==
    /\ cycles' = cycles + 1
    /\ result'.op = "select"
    /\ result'.gap # "none"

\* the cycle kept the active strategy
StaysOnActive ==
    /\ current_strategy' = current_strategy
    /\ strategy_changes' = strategy_changes
    /\ consecutive_same_strategy' = consecutive_same_strategy + 1

\* the cycle switched from the active strategy to the candidate
SwitchesToCandidate ==
    /\ current_strategy' = result'.candidate
    /\ current_strategy' # current_strategy
    /\ strategy_changes' =
         Append(strategy_changes,
                [from |-> current_strategy, to |-> result'.candidate,
                 market_regime |-> previous_regime'])
    /\ consecutive_same_strategy' = 0

\* C1 as stated: in a cycle of the enhanced or small-capital selector with an
\* active strategy and a different candidate, the selector switches only if
\* the candidate's combined score is strictly greater than the active one's
\* plus delta; in every other case, equality included, it stays on the
\* active strategy, appends nothing and increments the counter by 1.
C1_SwitchOnlyIfStrictlyGreater ==
    [][(Hysteretic /\ ContestedCycle /\ result'.gap # "above") => StaysOnActive]_vars

\* C1 as amended: in such a cycle the selector stays on the active strategy,
\* appends nothing and increments the counter by 1 whenever the candidate's
\* combined score is strictly less than the active one's plus delta, and it
\* changes the active strategy only when the candidate's combined score is
\* greater than or equal to the active one's plus delta.
C1_SwitchOnlyIfAtLeastDelta ==
    [][(Hysteretic /\ ContestedCycle)
        => /\ result'.gap = "below" => StaysOnActive
           /\ current_strategy' # current_strategy => result'.gap \in {"equal", "above"}]_vars

\* a cycle rejected a candidate whose margin was below delta
C1_Witness ==
    /\ Hysteretic
    /\ result.op = "select"
    /\ result.gap = "below"
    /\ result.prev # None
    /\ result.candidate # result.prev
    /\ current_strategy = result.prev
    /\ consecutive_same_strategy = 1
    /\ strategy_changes = <<>>

\* C2 as stated: when A is active and candidate B exceeds A's combined score
\* by more than delta, the cycle sets current_strategy to B, appends exactly
\* one entry (from A, to B, regime of this cycle) and resets the counter to
\* 0; no other cycle outcome appends a change-log entry.
C2_SwitchOnlyWhenMoreThanDelta ==
    [][(Hysteretic /\ cycles' = cycles + 1)
        => /\ (ContestedCycle /\ result'.gap = "above") => SwitchesToCandidate
           /\ strategy_changes' # strategy_changes
                => (ContestedCycle /\ result'.gap = "above")]_vars

\* C2 as amended: when A is active and candidate B reaches A's combined score
\* plus delta (greater than or equal), the cycle sets current_strategy to B,
\* appends exactly one entry (from A, to B, regime of this cycle) and resets
\* the counter to 0; no other cycle outcome appends a change-log entry.
C2_SwitchWhenAtLeastDelta ==
    [][(Hysteretic /\ cycles' = cycles + 1)
        => /\ (ContestedCycle /\ result'.gap \in {"equal", "above"}) => SwitchesToCandidate
           /\ strategy_changes' # strategy_changes
                => (ContestedCycle /\ result'.gap \in {"equal", "above"})]_vars

\* a cycle accepted a candidate whose margin was above delta
C2_Witness ==
    /\ Hysteretic
    /\ result.op = "select"
    /\ result.gap = "above"
    /\ result.prev # None
    /\ current_strategy = result.candidate
    /\ current_strategy # result.prev
    /\ strategy_changes = <<[from |-> result.prev, to |-> result.candidate,
                             market_regime |-> previous_regime]>>
    /\ consecutive_same_strategy = 0

\* C3: in every adaptive selector, over two consecutive selection cycles in
\* which the two best strategies differ by less than
\* STRATEGY_CHANGE_THRESHOLD and the strategy selected in the first cycle is
\* one of the two best of the second, the second cycle selects the strategy
\* the first one selected.
C3_NoFlapping ==
    [][(/\ cycles' = cycles + 1
        /\ result.op = "select" /\ result.selected = current_strategy
        /\ current_strategy # None
        /\ result.close
        /\ result'.op = "select"
        /\ result'.close /\ result'.held)
        => current_strategy' = current_strategy]_vars

\* the selection cycle of the step got as far as the hysteresis block
ReachedHysteresis ==
    /\ cycles' = cycles + 1
    /\ result'.op = "select"
    /\ result'.error \notin {"KeyError", "StrategyError"}

C26_ChangeLogFlushed ==
    [][(SAVE_STRATEGY_CHANGES /\ ReachedHysteresis)
        => /\ strategy_changes' = <<>>
           /\ result'.outcome = "returned"]_vars

\* the normalised affinity weights of any two strategies differ by less than
\* 0.375, for every regime and every pattern and volume adjustment
AffinitySpreadBelowMargin ==
    \A regime \in Regimes, double_top \in BOOLEAN, volume_pressure \in VolumePressures :
        LET w == AdjustedWeights(regime, double_top, volume_pressure)
        IN  \A s, t \in Strategies : 1000 * (w[s] - w[t]) < 375 * TotalWeight(w)

\* C27: in EnhancedAdaptiveStrategy a cycle in which all five performance
\* scores are equal never switches away from the active strategy, whatever
\* the regime and the weight adjustments, because the normalised affinity
\* weights of two strategies differ by less than 0.375.
C27_AffinityAloneNeverSwitches ==
    /\ [][(/\ variant = "ENHANCED"
            /\ cycles' = cycles + 1
            /\ result'.op = "select"
            /\ result'.equal_performance
            /\ current_strategy # None)
            => /\ current_strategy' = current_strategy
               /\ strategy_changes' = strategy_changes]_vars
    /\ [](variant = "ENHANCED" => AffinitySpreadBelowMargin)

\* a cycle of the enhanced selector with equal performance scores whose
\* candidate, preferred by the regime, differed from the active strategy and
\* was rejected
C27_Witness ==
    /\ variant = "ENHANCED"
    /\ result.op = "select"
    /\ result.equal_performance
    /\ result.gap = "below"
    /\ result.prev \in Strategies
    /\ result.candidate # result.prev
    /\ current_strategy = result.prev
    /\ result.selected = result.prev

-----------------------------------------------------------------------------
(* select_best_strategy as a function of the data of the cycle *)

\* the data select_best_strategy derives from a series long enough for the
\* selector of class v
SelectInputs(v) ==
    IF v = "ADAPTIVE"
    THEN [regime : AdaptiveRegimes, double_top : {FALSE},
          volume_pressure : {"neutral"}, perf : PerfVectors]
    ELSE [regime : Regimes, double_top : BOOLEAN,
          volume_pressure : VolumeInputs, perf : PerfVectors]

InitGiven ==
    /\ variant \in Variants
    /\ current_strategy = None
    /\ consecutive_same_strategy = 0
    /\ strategy_changes = <<>>
    /\ previous_regime = None
    /\ cycles = 0
    /\ result = NoResult
    /\ input \in SelectInputs(variant)
    /\ BotStart
    /\ historical_regimes = <<>>
    /\ HostStart

\* select_best_strategy called on the given data
NextGiven ==
    \/ SelectBestStrategy(input.regime, input.double_top, input.volume_pressure, input.perf)
    \/ AdaptiveSelectBestStrategy(input.regime, input.perf)

SpecGiven == InitGiven /\ [][NextGiven]_vars

\* position of a strategy in the catalog iteration order
CatalogIndex(s) == CHOOSE i \in 1..Len(Catalog) : Catalog[i] = s

GivenCombined ==
    CombinedScores(variant, input.regime, input.double_top, input.volume_pressure, input.perf)

\* the strategies that share the maximal combined score of the given data
GivenMaxima ==
    {s \in Strategies : \A t \in Strategies : GivenCombined[t] <= GivenCombined[s]}

\* C10: the argmax candidate of a cycle has the maximal combined score and
\* comes first in catalog iteration order among the strategies that share
\* it, and repeated selections on the same data name the same candidate.
C10_FirstRegisteredWins ==
    /\ [](result.op = "select"
            => /\ result.candidate \in GivenMaxima
               /\ \A s \in GivenMaxima : CatalogIndex(result.candidate) <= CatalogIndex(s))
    /\ [][(result.op = "select" /\ result'.op = "select")
            => result'.candidate = result.candidate]_vars

\* with no strategy active, several strategies tied for the maximum and the
\* first of them in catalog order was selected
C10_Witness ==
    /\ cycles = 1
    /\ result.op = "select"
    /\ result.prev = None
    /\ Cardinality(GivenMaxima) >= 2
    /\ current_strategy = result.candidate
    /\ \A s \in GivenMaxima : CatalogIndex(current_strategy) <= CatalogIndex(s)

-----------------------------------------------------------------------------
(* AdvancedMarketAnalysis.analyze and RiskAdjuster.adjust_risk.
   Strengths are in hundredths, confidences in 1/200, risk multipliers in
   1/4000, stop-loss and take-profit fractions in 1/100000 and the base risk
   in 1/10000, so that every product of the code is an exact integer. *)

\* Python's min(a, b) and max(a, b) on numbers
Min(a, b) == IF b < a THEN b ELSE a
Max(a, b) == IF b > a THEN b ELSE a

RECURSIVE ISqrtBetween(_, _, _)
ISqrtBetween(x, lo, hi) ==
    IF lo >= hi THEN lo
    ELSE LET mid == (lo + hi + 1) \div 2
         IN  IF mid * mid <= x THEN ISqrtBetween(x, mid, hi)
             ELSE ISqrtBetween(x, lo, mid - 1)

\* floor of the square root
ISqrt(x) == ISqrtBetween(x, 0, 40000)

\* a bound that lets every value through
Unclamped(lo, hi, x) == x

\* max(lo, min(hi, x))
Clamp(lo, hi, x) == Max(lo, Min(hi, x))

\* VolumeAnalyzer.analyze_volume on a series of at least 20 candles:
\* vol_ratio and volume_change in hundredths, the strength in hundredths
VolumeStrength(has_volume, vol_ratio, has_spike, volume_change) ==
    IF ~has_volume
    THEN 0
    ELSE LET raw == IF vol_ratio > 200 THEN Min(100, vol_ratio \div 5)
                    ELSE IF vol_ratio > 130 THEN Min(100, vol_ratio \div 3)
                    ELSE IF vol_ratio < 50
                         THEN IF vol_ratio = 0 THEN 100
                              ELSE Min(100, 10000 \div (vol_ratio * 5))
                    ELSE IF vol_ratio < 75 THEN Min(100, 10000 \div (vol_ratio * 3))
                    ELSE 50
             spiked == IF has_spike THEN Min(100, (raw * 13) \div 10) ELSE raw
             trended == (spiked * (200 + volume_change)) \div 200
         IN  Clamp(10, 100, trended)

\* the volume_pressure label of analyze_volume
VolumePressure(has_volume, vol_ratio) ==
    IF ~has_volume THEN "unknown"
    ELSE IF vol_ratio > 200 THEN "strong_buying"
    ELSE IF vol_ratio > 130 THEN "weak_buying"
    ELSE IF vol_ratio < 50 THEN "strong_selling"
    ELSE IF vol_ratio < 75 THEN "weak_selling"
    ELSE "neutral"

\* AdvancedMarketAnalysis.analyze on a series of n candles
Analyze(n, regime, has_volume, vol_ratio, has_spike, volume_change) ==
    IF n < AnalyzeMinLen
    THEN [regime |-> "insufficient_data", confidence |-> 0,
          has_volume_key |-> FALSE, strength |-> 0, volume_pressure |-> "unknown"]
    ELSE LET strength == VolumeStrength(has_volume, vol_ratio, has_spike, volume_change)
         IN  [regime |-> regime,
              confidence |-> Min(200, 100 + strength),
              has_volume_key |-> TRUE,
              strength |-> strength,
              volume_pressure |-> VolumePressure(has_volume, vol_ratio)]

\* regime_risk_multipliers.get(regime, 1.0), in tenths
RegimeRiskMultiplier(regime) ==
    CASE regime = "strong_uptrend"     -> 12
      [] regime = "weak_uptrend"       -> 10
      [] regime = "strong_downtrend"   -> 7
      [] regime = "weak_downtrend"     -> 8
      [] regime = "ranging_narrow"     -> 9
      [] regime = "ranging_wide"       -> 10
      [] regime = "breakout_potential" -> 11
      [] regime = "high_volatility"    -> 6
      [] regime = "low_volatility"     -> 11
      [] OTHER                         -> 10

\* RiskAdjuster.max_risk_adjustment, in tenths
max_risk_adjustment == 5

\* base_risk_per_trade of the adjuster each selector constructs, in 1/10000
BaseRisk(v) == IF v = "SMALL_CAPITAL" THEN 100 ELSE 200

\* regime multiplier times confidence_adjustment, in 1/4000
RawRiskMultiplier(analysis) ==
    RegimeRiskMultiplier(analysis.regime) * (200 + analysis.confidence)

\* RiskAdjuster.adjust_risk
AdjustRisk(base, analysis) ==
    LET risk_multiplier == Clamp(400 * (10 - max_risk_adjustment),
                                 400 * (10 + max_risk_adjustment),
                                 RawRiskMultiplier(analysis))
        volume_strength == IF analysis.has_volume_key THEN analysis.strength ELSE 50
        wide   == analysis.regime \in {"high_volatility", "breakout_potential"}
        narrow == analysis.regime \in {"low_volatility", "ranging_narrow"}
        stop_loss == IF wide THEN 2600 ELSE IF narrow THEN 1600 ELSE 2000
        take_profit == IF wide THEN 5200 ELSE IF narrow THEN 3200 ELSE 4000
        stretch == volume_strength > 70
                   /\ analysis.regime \in {"strong_uptrend", "breakout_potential"}
    IN  [risk_per_trade |-> base * risk_multiplier,
         stop_loss_percent |-> stop_loss,
         take_profit_percent |-> IF stretch THEN (take_profit * 12) \div 10 ELSE take_profit,
         risk_multiplier |-> risk_multiplier,
         confidence |-> analysis.confidence]

\* the series analyze is called on
AnalyzeInputs ==
    [n : {29, 30}, regime : Regimes, has_volume : BOOLEAN,
     vol_ratio : {0, 60, 100, 150, 1000}, has_spike : BOOLEAN,
     volume_change : {-100, 0, 500}]

\* analysis dictionaries handed to adjust_risk directly
GivenAnalyses ==
    [regime : Regimes \cup {"insufficient_data", "unknown"},
     confidence : {-200, 100, 400},
     has_volume_key : BOOLEAN, strength : {50, 80},
     volume_pressure : {"unknown"}]

InitRisk ==
    /\ variant \in {"ENHANCED", "SMALL_CAPITAL"}
    /\ current_strategy = None
    /\ consecutive_same_strategy = 0
    /\ strategy_changes = <<>>
    /\ previous_regime = None
    /\ cycles = 0
    /\ result = NoResult
    /\ input \in AnalyzeInputs
    /\ BotStart
    /\ historical_regimes = <<>>
    /\ HostStart

\* market_analyzer.analyze(df)
AnalyzeCall ==
    /\ result.op = "none"
    /\ LET a == Analyze(input.n, input.regime, input.has_volume, input.vol_ratio,
                        input.has_spike, input.volume_change)
       IN  /\ result' = [op |-> "analyze", analysis |-> a]
           /\ previous_regime' = IF input.n < AnalyzeMinLen THEN previous_regime ELSE a.regime
    /\ UNCHANGED <<variant, current_strategy, consecutive_same_strategy,
                   strategy_changes, cycles, input, historical_regimes, hostVars, botVars>>

\* risk_adjuster.adjust_risk(market_analysis) on the analysis just made
AdjustRiskCall ==
    /\ result.op = "analyze"
    /\ result' = [op |-> "adjust_risk", analysis |-> result.analysis, analysed |-> TRUE,
                  risk |-> AdjustRisk(BaseRisk(variant), result.analysis)]
    /\ UNCHANGED <<variant, current_strategy, consecutive_same_strategy,
                   strategy_changes, previous_regime, cycles, input, historical_regimes, hostVars, botVars>>

\* risk_adjuster.adjust_risk called on an analysis dictionary a
AdjustRiskGiven(a) ==
    /\ result.op = "none"
    /\ result' = [op |-> "adjust_risk", analysis |-> a, analysed |-> FALSE,
                  risk |-> AdjustRisk(BaseRisk(variant), a)]
    /\ UNCHANGED <<variant, current_strategy, consecutive_same_strategy,
                   strategy_changes, previous_regime, cycles, input, historical_regimes, hostVars, botVars>>

NextRisk ==
    \/ AnalyzeCall
    \/ AdjustRiskCall
    \/ \E a \in GivenAnalyses : AdjustRiskGiven(a)

SpecRisk == InitRisk /\ [][NextRisk]_vars

\* C9: adjust_risk returns a risk_multiplier within [0.5, 1.5] and a
\* risk_per_trade equal to the base risk times that multiplier, for every
\* analysis it is given, and the confidence analyze produces lies in [0, 1].
C9_RiskWithinBounds ==
    /\ result.op = "adjust_risk"
         => /\ result.risk.risk_multiplier >= 2000
            /\ result.risk.risk_multiplier <= 6000
            /\ result.risk.risk_per_trade = BaseRisk(variant) * result.risk.risk_multiplier
    /\ result.op = "analyze"
         => /\ result.analysis.confidence >= 0
            /\ result.analysis.confidence <= 200

\* adjust_risk ran on an analysis made by analyze whose regime multiplier
\* times confidence adjustment fell below 0.5, and returned the lower bound
C9_Witness ==
    /\ result.op = "adjust_risk"
    /\ result.analysed
    /\ result.analysis.regime \in Regimes
    /\ RawRiskMultiplier(result.analysis) < 2000
    /\ result.risk.risk_multiplier = 2000
    /\ result.risk.risk_per_trade = BaseRisk(variant) * 2000

\* C11: whenever the analysed regime is strong_uptrend or weak_uptrend, the
\* risk multiplier adjust_risk returns for that analysis is at least 1.0,
\* for every confidence analyze can produce.
C11_UptrendMultiplierAtLeastOne ==
    (/\ result.op = "adjust_risk"
     /\ result.analysed
     /\ result.analysis.regime \in {"strong_uptrend", "weak_uptrend"})
        => result.risk.risk_multiplier >= 4000

\* the take-profit fraction after the regime scaling alone
RegimeScaledTakeProfit(regime) ==
    IF regime \in {"high_volatility", "breakout_potential"} THEN 5200
    ELSE IF regime \in {"low_volatility", "ranging_narrow"} THEN 3200
    ELSE 4000

\* C21: adjust_risk stretches the take-profit beyond the regime-scaled value
\* only with buying pressure in strong_uptrend or breakout_potential; with
\* neutral or selling pressure it is not stretched, whatever the strength.
C21_StretchOnlyWithBuyingPressure ==
    (/\ result.op = "adjust_risk"
     /\ result.analysed
     /\ result.risk.take_profit_percent
           # RegimeScaledTakeProfit(result.analysis.regime))
        => /\ result.analysis.volume_pressure \in {"strong_buying", "weak_buying"}
           /\ result.analysis.regime \in {"strong_uptrend", "breakout_potential"}

-----------------------------------------------------------------------------
(* MarketRegimeDetector.detect_regime.
   Prices are positive integers; ratios (price changes, volatilities,
   thresholds, band distances) are in millionths, r_squared in hundredths.
   What numpy, pandas and scipy compute over the window (the deviation of
   the percentage changes, the regression, the means and the percentiles of
   the indicator columns) is data of the series; the thresholds, the
   features and the label are computed from it as detect_regime does. *)

\* one unit of a ratio
RatioUnit == 1000000

Abs(x) == IF x < 0 THEN -x ELSE x

\* lookback_period of detect_regime when the caller passes none
DefaultRegimeLookback == 50

\* min_required_data = max(20, lookback_period // 2)
MinRequiredData(lookback_period) == Max(20, lookback_period \div 2)

\* below this many candles the short branch answers 'neutral'
ShortNeutralLen == 5

\* the label of the short branch: len(df) < min_required_data
ShortRegime(s) ==
    IF s.n < ShortNeutralLen THEN "neutral"
    ELSE IF 100 * (s.close_last - s.close_tail5) > 2 * s.close_tail5 THEN "weak_uptrend"
    ELSE IF 100 * (s.close_last - s.close_tail5) < -2 * s.close_tail5 THEN "weak_downtrend"
    ELSE "ranging_narrow"

\* price_volatility = recent_df['close'].pct_change().std() * np.sqrt(lookback_period)
PriceVolatility(pct_std, lookback_period) ==
    (pct_std * ISqrt(10000 * lookback_period)) \div 100

\* the adaptive thresholds detect_regime compares features with
RegimeThresholds(price_volatility) ==
    [trend    |-> Max(price_volatility \div 2, 10000),
     high     |-> Max((3 * price_volatility) \div 2, 30000),
     low      |-> Max((3 * price_volatility) \div 10, 10000),
     momentum |-> Max((12 * price_volatility) \div 10, 30000)]

\* Feature 2: atr mean over close mean, or the deviation of the returns
Volatility(s) == IF s.has_atr THEN s.atr_ratio ELSE s.pct_std

\* Feature 5: rsi_extreme, from the rsi column or from the 5-candle momentum
RsiExtreme(s, thresholds) ==
    IF s.rsi.has_rsi
    THEN s.rsi.latest < s.rsi.p10 \/ s.rsi.latest > s.rsi.p90
    ELSE Abs(s.rsi.momentum) > thresholds.momentum

\* close of the last candle within the band of the upper or lower Bollinger band
NearBand(s) ==
    \/ s.close_last * (2 * RatioUnit) > (2 * RatioUnit - s.bands.p10) * s.bands.upper
    \/ s.close_last * (2 * RatioUnit) < (2 * RatioUnit + s.bands.p10) * s.bands.lower

\* close_to_extreme of the branch without Bollinger columns
CloseToExtreme(s) ==
    LET band == Max(3 * s.bands.mean_close, 90 * (s.bands.high - s.bands.low))
    IN  \/ 100 * s.close_last > 100 * s.bands.high - band
        \/ 100 * s.close_last < 100 * s.bands.low + band

\* a breakout flag that asks for proximity only
BreakoutByProximity(s, is_narrow_range, volatility, low) ==
    IF s.bands.has_bb THEN NearBand(s) ELSE CloseToExtreme(s)

\* Feature 6: breakout_potential
BreakoutPotential(s, is_narrow_range, volatility, low) ==
    IF s.bands.has_bb
    THEN NearBand(s)
    ELSE CloseToExtreme(s) /\ (is_narrow_range \/ volatility < low)

\* the features detect_regime computes on the window of a long enough series
RegimeFeatures(s, lookback_period) ==
    LET thresholds == RegimeThresholds(PriceVolatility(s.pct_std, lookback_period))
        volatility == Volatility(s)
        is_narrow_range == s.range.mean < s.range.p25
        is_wide_range   == s.range.mean > s.range.p75
    IN  [thresholds |-> thresholds,
         price_change |-> ((s.close_last - s.close_first) * RatioUnit) \div s.close_first,
         trend_strength |-> s.trend.strength,
         r_squared |-> s.trend.r_squared,
         volatility |-> volatility,
         is_narrow_range |-> is_narrow_range,
         is_wide_range |-> is_wide_range,
         rsi_extreme |-> RsiExtreme(s, thresholds),
         breakout_potential |->
             BreakoutPotential(s, is_narrow_range, volatility, thresholds.low)]

\* the cascade with the two volatility tests after the range tests
ClassifyRangeFirst(f) ==
    LET strong == f.trend_strength > f.thresholds.trend /\ f.r_squared > 70
        calm   == Abs(f.price_change) < f.thresholds.trend
    IN  IF f.breakout_potential THEN "breakout_potential"
        ELSE IF f.is_narrow_range /\ calm THEN "ranging_narrow"
        ELSE IF f.is_wide_range /\ calm THEN "ranging_wide"
        ELSE IF f.volatility > f.thresholds.high THEN "high_volatility"
        ELSE IF f.volatility < f.thresholds.low THEN "low_volatility"
        ELSE IF f.price_change > 0
             THEN IF strong THEN "strong_uptrend" ELSE "weak_uptrend"
        ELSE IF strong THEN "strong_downtrend" ELSE "weak_downtrend"

\* the if/elif cascade that combines the features into the label
Classify(f) ==
    LET strong == f.trend_strength > f.thresholds.trend /\ f.r_squared > 70
        calm   == Abs(f.price_change) < f.thresholds.trend
    IN  IF f.breakout_potential THEN "breakout_potential"
        ELSE IF f.volatility > f.thresholds.high THEN "high_volatility"
        ELSE IF f.volatility < f.thresholds.low THEN "low_volatility"
        ELSE IF f.is_narrow_range /\ calm THEN "ranging_narrow"
        ELSE IF f.is_wide_range /\ calm THEN "ranging_wide"
        ELSE IF f.price_change > 0
             THEN IF strong THEN "strong_uptrend" ELSE "weak_uptrend"
        ELSE IF strong THEN "strong_downtrend" ELSE "weak_downtrend"

\* a detector that keeps the label of the analyzer's previous call
DetectRegimeSticky(s, lookback_period) ==
    IF previous_regime # None THEN previous_regime
    ELSE IF s.n < MinRequiredData(lookback_period) THEN ShortRegime(s)
    ELSE Classify(RegimeFeatures(s, lookback_period))

\* MarketRegimeDetector.detect_regime(df, lookback_period)
DetectRegime(s, lookback_period) ==
    IF s.n < MinRequiredData(lookback_period) THEN ShortRegime(s)
    ELSE Classify(RegimeFeatures(s, lookback_period))

\* lookback periods detect_regime is called with
RegimeLookbacks == {30, DefaultRegimeLookback}

\* mean, 25th and 75th percentile of bb_width (or of the high-low ratio):
\* a narrow, a medium and a wide range
RangeStats ==
    { [mean |-> 20000, p25 |-> 25000, p75 |-> 40000],
      [mean |-> 30000, p25 |-> 25000, p75 |-> 40000],
      [mean |-> 50000, p25 |-> 25000, p75 |-> 40000] }

\* abs(slope) / mean(close) and rvalue ** 2 of the regression over the window
TrendStats ==
    { [strength |-> 1000, r_squared |-> 90],
      [strength |-> 12000, r_squared |-> 50],
      [strength |-> 12000, r_squared |-> 90] }

\* the rsi column pinned at 95 over the whole window
PinnedRsi == [has_rsi |-> TRUE, latest |-> 95, p10 |-> 95, p90 |-> 95, momentum |-> 0]

\* an rsi column around 50
NeutralRsi == [has_rsi |-> TRUE, latest |-> 50, p10 |-> 40, p90 |-> 60, momentum |-> 0]

\* the rsi column (latest value, 10th and 90th percentile) or, without it,
\* the 5-candle momentum
RsiStats ==
    { PinnedRsi, NeutralRsi,
      [has_rsi |-> TRUE, latest |-> 80, p10 |-> 30, p90 |-> 70, momentum |-> 0],
      [has_rsi |-> FALSE, latest |-> 0, p10 |-> 0, p90 |-> 0, momentum |-> 60000] }

\* the Bollinger bands of the last candle and the 10th percentile of the band
\* distance, or the rolling high and low of a frame without Bollinger columns
BandStats ==
    { [has_bb |-> TRUE, p10 |-> 40000, upper |-> 101, lower |-> 90,
       high |-> 110, low |-> 90, mean_close |-> 100],
      [has_bb |-> TRUE, p10 |-> 40000, upper |-> 110, lower |-> 90,
       high |-> 110, low |-> 90, mean_close |-> 100],
      [has_bb |-> FALSE, p10 |-> 0, upper |-> 0, lower |-> 0,
       high |-> 110, low |-> 90, mean_close |-> 100] }

\* what analyze_volume sees in the volume column
VolumeStats ==
    { [has_volume |-> TRUE, vol_ratio |-> 100, has_spike |-> FALSE, volume_change |-> 0],
      [has_volume |-> TRUE, vol_ratio |-> 40, has_spike |-> FALSE, volume_change |-> 0] }

\* series long enough for analyze
FullSeries ==
    [n : {30}, close_first : {95, 100, 110}, close_tail5 : {100}, close_last : {100},
     pct_std : {500, 4000}, has_atr : {TRUE}, atr_ratio : {5000, 20000, 400000},
     trend : TrendStats,
     range : RangeStats, rsi : RsiStats, bands : BandStats, volume : VolumeStats]
    \cup
    [n : {30}, close_first : {95, 100, 110}, close_tail5 : {100}, close_last : {100},
     pct_std : {500, 4000}, has_atr : {FALSE}, atr_ratio : {0},
     trend : TrendStats,
     range : RangeStats, rsi : RsiStats, bands : BandStats, volume : VolumeStats]

\* series of 4 and of 22 candles
ShortSeries ==
    [n : {4, 22}, close_first : {95}, close_tail5 : {95, 100, 110}, close_last : {100},
     pct_std : {4000}, has_atr : {TRUE}, atr_ratio : {20000},
     trend : {[strength |-> 20000, r_squared |-> 90]},
     range : RangeStats, rsi : {NeutralRsi}, bands : BandStats, volume : VolumeStats]

RegimeInputs == FullSeries \cup ShortSeries

\* a series other calls are made on between two calls on the same series
OtherSeries ==
    [n |-> 30, close_first |-> 95, close_tail5 |-> 100, close_last |-> 100,
     pct_std |-> 4000, has_atr |-> TRUE, atr_ratio |-> 20000,
     trend |-> [strength |-> 20000, r_squared |-> 90],
     range |-> [mean |-> 30000, p25 |-> 25000, p75 |-> 40000],
     rsi |-> NeutralRsi,
     bands |-> [has_bb |-> FALSE, p10 |-> 0, upper |-> 0, lower |-> 0,
                high |-> 110, low |-> 90, mean_close |-> 100],
     volume |-> [has_volume |-> TRUE, vol_ratio |-> 100, has_spike |-> FALSE,
                 volume_change |-> 0]]

\* the labels returned so far for the series of the behaviour, by lookback
NothingSeen == [L \in RegimeLookbacks |-> "none"]

Seen(seen, s, lookback_period, regime) ==
    IF s = input /\ seen[lookback_period] = "none"
    THEN [seen EXCEPT ![lookback_period] = regime]
    ELSE seen

InitRegime ==
    /\ variant \in {"ENHANCED"}
    /\ current_strategy = None
    /\ consecutive_same_strategy = 0
    /\ strategy_changes = <<>>
    /\ previous_regime = None
    /\ cycles = 0
    /\ input \in RegimeInputs
    /\ result = [op |-> "none", seen |-> NothingSeen]
    /\ BotStart
    /\ historical_regimes = <<>>
    /\ HostStart

\* regime_detector.detect_regime(df, lookback_period) called on series s
DetectRegimeCall(s, lookback_period) ==
    /\ LET regime == DetectRegime(s, lookback_period)
           short  == s.n < MinRequiredData(lookback_period)
       IN  result' = [op |-> "detect_regime", series |-> s, lookback |-> lookback_period,
                      short |-> short, regime |-> regime,
                      repeat |-> s = input /\ result.seen[lookback_period] # "none",
                      features |-> IF short THEN None
                                   ELSE RegimeFeatures(s, lookback_period),
                      seen |-> Seen(result.seen, s, lookback_period, regime)]
    /\ UNCHANGED <<variant, current_strategy, consecutive_same_strategy,
                   strategy_changes, previous_regime, cycles, input, historical_regimes, hostVars, botVars>>

\* market_analyzer.analyze(df) called on series s
AnalyzeSeries(s) ==
    /\ LET regime == DetectRegime(s, DefaultRegimeLookback)
           a == Analyze(s.n, regime, s.volume.has_volume, s.volume.vol_ratio,
                        s.volume.has_spike, s.volume.volume_change)
       IN  IF s.n < AnalyzeMinLen
           THEN /\ result' = [op |-> "analyze", series |-> s, analysis |-> a,
                              has_weights |-> FALSE, seen |-> result.seen]
                /\ UNCHANGED previous_regime
           ELSE /\ result' = [op |-> "analyze", series |-> s, analysis |-> a,
                              has_weights |-> TRUE,
                              features |-> RegimeFeatures(s, DefaultRegimeLookback),
                              weights |-> AdjustedWeights(regime, FALSE, a.volume_pressure),
                              seen |-> Seen(result.seen, s, DefaultRegimeLookback, regime)]
                /\ previous_regime' = regime
    /\ UNCHANGED <<variant, current_strategy, consecutive_same_strategy,
                   strategy_changes, cycles, input, historical_regimes, hostVars, botVars>>

\* risk_adjuster.adjust_risk(market_analysis) on the analysis just made
AdjustRiskOfSeries ==
    /\ result.op = "analyze"
    /\ result' = [op |-> "adjust_risk", series |-> result.series,
                  analysis |-> result.analysis,
                  risk |-> AdjustRisk(BaseRisk(variant), result.analysis),
                  seen |-> result.seen]
    /\ UNCHANGED <<variant, current_strategy, consecutive_same_strategy,
                   strategy_changes, previous_regime, cycles, input, historical_regimes, hostVars, botVars>>

NextRegime ==
    \/ \E s \in {input, OtherSeries} : \E L \in RegimeLookbacks : DetectRegimeCall(s, L)
    \/ AnalyzeSeries(input)
    \/ AdjustRiskOfSeries

SpecRegime == InitRegime /\ [][NextRegime]_vars

\* Scenario B: 30 candles, no price change over the window, noise of 0.05%,
\* a volatility below the 1% floor and a narrow range
FlatScenario(s) ==
    /\ s.n = 30
    /\ s.close_first = s.close_last
    /\ s.pct_std = 500
    /\ Volatility(s) < 10000
    /\ s.range.mean < s.range.p25

\* C12: a flat 30-candle series with narrow Bollinger width is classified
\* as ranging_narrow, and the stop-loss and take-profit percentages
\* adjust_risk returns for it are 0.8 times the base values 0.02 and 0.04.
C12_FlatSeriesIsRangingNarrow ==
    (result.op = "adjust_risk" /\ FlatScenario(result.series))
        => /\ result.analysis.regime = "ranging_narrow"
           /\ result.risk.stop_loss_percent = 1600
           /\ result.risk.take_profit_percent = 3200

\* the weights analyze recommends for series s
RecommendedWeights(s) ==
    AdjustedWeights(DetectRegime(s, DefaultRegimeLookback), FALSE,
                    VolumePressure(s.volume.has_volume, s.volume.vol_ratio))

\* C13: for a series whose RSI is pinned at 95 over the whole window the
\* detector flags momentum extremity, and the normalised weight analyze
\* recommends for the RSI strategy is strictly larger than for the same
\* series with a neutral RSI.
C13_PinnedRsiFavoursRsiStrategy ==
    (result.op = "analyze" /\ result.has_weights /\ result.series.rsi = PinnedRsi)
        => /\ result.features.rsi_extreme
           /\ LET neutral == RecommendedWeights([result.series EXCEPT !.rsi = NeutralRsi])
              IN  result.weights.RSI * TotalWeight(neutral)
                     > neutral.RSI * TotalWeight(result.weights)

C15_DecisionOrder ==
    (result.op = "detect_regime" /\ ~result.short)
        => LET f == result.features
               r == result.regime
               calm == Abs(f.price_change) < f.thresholds.trend
               strong == f.trend_strength > f.thresholds.trend /\ f.r_squared > 70
               rung == CASE f.breakout_potential -> 1
                         [] ~f.breakout_potential /\ f.volatility > f.thresholds.high -> 2
                         [] OTHER -> IF f.volatility < f.thresholds.low THEN 3
                                     ELSE IF f.is_narrow_range /\ calm THEN 4
                                     ELSE IF f.is_wide_range /\ calm THEN 5
                                     ELSE 6
           IN  /\ r \in Regimes
               /\ rung = 1 <=> r = "breakout_potential"
               /\ rung = 2 <=> r = "high_volatility"
               /\ rung = 3 <=> r = "low_volatility"
               /\ rung = 4 <=> r = "ranging_narrow"
               /\ rung = 5 <=> r = "ranging_wide"
               /\ rung = 6 <=> r \in {"strong_uptrend", "weak_uptrend",
                                      "strong_downtrend", "weak_downtrend"}
               /\ rung = 6 => /\ f.price_change > 0
                                   <=> r \in {"strong_uptrend", "weak_uptrend"}
                              /\ strong <=> r \in {"strong_uptrend", "strong_downtrend"}

\* a series that is below the low-volatility threshold and also narrow and
\* calm was labelled low_volatility, the earlier rung
C15_Witness ==
    /\ result.op = "detect_regime"
    /\ ~result.short
    /\ ~result.features.breakout_potential
    /\ result.features.volatility < result.features.thresholds.low
    /\ result.features.is_narrow_range
    /\ Abs(result.features.price_change) < result.features.thresholds.trend
    /\ result.regime = "low_volatility"

\* C16: detect_regime reports breakout_potential only when the last close
\* is within the proximity band of the upper or lower extreme and the market
\* is narrow-range or below the low-volatility threshold, with Bollinger
\* columns and without.
C16_BreakoutNeedsSqueeze ==
    (result.op = "detect_regime" /\ ~result.short
       /\ result.regime = "breakout_potential")
        => /\ IF result.series.bands.has_bb THEN NearBand(result.series)
              ELSE CloseToExtreme(result.series)
           /\ \/ result.features.is_narrow_range
              \/ result.features.volatility < result.features.thresholds.low

-----------------------------------------------------------------------------
(* evaluate_strategy_performance of the three selector classes.
   Prices are positive integers, period returns and the metrics built from
   them are in thousandths, scores are in millionths.  The catalog
   strategies are outside the scorer: what a strategy answers on the window
   of each replay step is an input, one signal (or a raised exception) per
   invocation. *)

\* lookback_period of the Enhanced and SmallCapital scorers in the model
ReplayLookback == 3

\* one unit of score
ScoreUnit == 1000000

\* the neutral score 0.5
NeutralScore == ScoreUnit \div 2

\* a strategy invocation that raises instead of returning a signal
Raises == 2

IsSignal(x) == x # Raises

\* lookback_period of the scorer of class v
ScoreLookback(v) == IF v = "ADAPTIVE" THEN AdaptiveLookback ELSE ReplayLookback

\* fewest candles the scorer of class v replays on
ScoreMinLen(v) == ScoreLookback(v) + (IF v = "ADAPTIVE" THEN 10 ELSE 5)

\* len(temp_df) at step i of the Adaptive replay on n candles:
\* df.iloc[-(lookback+5-i) : -5+i], whose stop is absolute from i = 5 on
AdaptiveWindowLen(n, i) ==
    LET start == n - (AdaptiveLookback + 5 - i)
        stop  == IF -5 + i < 0 THEN n - 5 + i ELSE -5 + i
    IN  IF stop > start THEN stop - start ELSE 0

\* the steps of the Adaptive replay that invoke the strategy
AdaptiveReplaySteps(n) ==
    {i \in 0..(AdaptiveLookback - 5) : AdaptiveWindowLen(n, i) >= 3}

\* number of strategy invocations per strategy in one evaluation
NumCalls(v) ==
    IF v = "ADAPTIVE"
    THEN Cardinality(AdaptiveReplaySteps(ScoreMinLen("ADAPTIVE")))
    ELSE ReplayLookback

\* position update of the Adaptive and Enhanced replay
LongShort(position, answer) ==
    IF answer = 1 /\ position <= 0 THEN 1
    ELSE IF answer = -1 /\ position >= 0 THEN -1
    ELSE position

\* position update of the SmallCapital replay
LongOnly(position, answer) ==
    IF answer = 1 /\ position = 0 THEN 1
    ELSE IF answer = -1 /\ position = 1 THEN 0
    ELSE position

\* (price_curr - price_prev) / price_prev, in thousandths
PeriodReturn(price_prev, price_curr) ==
    ((price_curr - price_prev) * 1000) \div price_prev

\* list[k] of Python, k counted from 0 and negative k from the end
PyAt(list, k) == IF k < 0 THEN list[Len(list) + k + 1] ELSE list[k + 1]

RECURSIVE AdaptiveReplay(_, _, _, _, _)
\* the loop over enumerate(strategy_signals[:-1]) from step i on
AdaptiveReplay(signals, hist, i, position, returns) ==
    IF i >= Len(signals) - 1
    THEN returns
    ELSE IF i = 0
    THEN AdaptiveReplay(signals, hist, 1, position, returns)
    ELSE LET p == LongShort(position, PyAt(signals, i))
         IN  AdaptiveReplay(signals, hist, i + 1, p,
                            Append(returns, p * PeriodReturn(hist[i], hist[i + 1])))

RECURSIVE EnhancedReplay(_, _, _, _, _)
\* the loop over range(lookback_period) of the Enhanced scorer from step i on;
\* close[k] is df['close'].iloc[-(lookback_period + 5) + k]
EnhancedReplay(sig, close, i, position, returns) ==
    IF i >= Len(sig)
    THEN returns
    ELSE LET p == LongShort(position, PyAt(sig, i))
         IN  EnhancedReplay(sig, close, i + 1, p,
                 IF i > 0
                 THEN Append(returns, p * PeriodReturn(close[i - 1], close[i]))
                 ELSE returns)

\* signals[i-1] == 1 and signals[i-2] != 1, on the signals up to step i
EntryFeeDue(signals, i) == PyAt(signals, i - 1) = 1 /\ PyAt(signals, i - 2) # 1

\* signals[i-1] == -1 and signals[i-2] == 1, on the signals up to step i
ExitFeeDue(signals, i) == PyAt(signals, i - 1) = -1 /\ PyAt(signals, i - 2) = 1

\* the 0.001 deductions step i of the SmallCapital replay applies, given the
\* signals up to step i and the position p after the step
FeesAt(signals, i, p) ==
    IF i > 0 /\ p = 1 THEN (IF EntryFeeDue(signals, i) THEN 1 ELSE 0)
    ELSE IF i > 0 /\ p = 0 /\ ExitFeeDue(signals, i) THEN 1
    ELSE 0

RECURSIVE SmallReplay(_, _, _, _, _)
\* the loop over range(lookback_period) of the SmallCapital scorer from step i on
SmallReplay(sig, close, i, position, returns) ==
    IF i >= Len(sig)
    THEN returns
    ELSE LET signals == SubSeq(sig, 1, i + 1)
             p == LongOnly(position, PyAt(sig, i))
         IN  SmallReplay(sig, close, i + 1, p,
                 IF i > 0 /\ p = 1
                 THEN Append(returns,
                             PeriodReturn(close[i - 1], close[i])
                             - FeesAt(signals, i, p))
                 ELSE IF i > 0 /\ p = 0 /\ ExitFeeDue(signals, i)
                 THEN Append(returns, -FeesAt(signals, i, p))
                 ELSE returns)

\* the returns list the scorer of class v builds for one strategy
Returns(v, sig, close) ==
    IF v = "ADAPTIVE" THEN AdaptiveReplay(SelectSeq(sig, IsSignal), close, 0, 0, <<>>)
    ELSE IF v = "ENHANCED" THEN EnhancedReplay(sig, close, 0, 0, <<>>)
    ELSE SmallReplay(sig, close, 0, 0, <<>>)

\* the steps of the replay of class v on n candles that invoke the strategy
ReplaySteps(v, n) ==
    IF v = "ADAPTIVE" THEN AdaptiveReplaySteps(n) ELSE 0..(ScoreLookback(v) - 1)

\* first and last candle (counted from 0) of temp_df at step i
ReplayWindow(v, n, i) ==
    IF v = "ADAPTIVE"
    THEN [first |-> n - (AdaptiveLookback + 5 - i),
          last  |-> (IF -5 + i < 0 THEN n - 5 + i ELSE -5 + i) - 1]
    ELSE LET hist_index == -(ScoreLookback(v) + 5) + i
         IN  [first |-> 0,
              last  |-> IF hist_index < -1 THEN n + hist_index - 1 ELSE n - 2]

\* the candles of price_prev and price_curr of the return step i contributes
ReturnPeriod(v, n, i) ==
    IF v = "ADAPTIVE"
    THEN [from |-> n - AdaptiveLookback - 5 + i, to |-> n - AdaptiveLookback - 5 + i + 1]
    ELSE [from |-> n - (ScoreLookback(v) + 5) + i - 1, to |-> n - (ScoreLookback(v) + 5) + i]

\* step i may append a return: every step but the first, and in the Adaptive
\* loop over strategy_signals[:-1] not the last signal either
Contributes(v, n, i) ==
    IF v = "ADAPTIVE"
    THEN i > 0 /\ i < Cardinality(AdaptiveReplaySteps(n)) - 1
    ELSE i > 0

\* windows and return periods of one replay in which no invocation fails
ReplayGeometry(v, n) ==
    [i \in ReplaySteps(v, n) |->
        [window |-> ReplayWindow(v, n, i),
         contributes |-> Contributes(v, n, i),
         period |-> ReturnPeriod(v, n, i)]]

RECURSIVE PositionsFrom(_, _, _, _)
\* the simulated position after each signal of the replay of class v
PositionsFrom(v, sig, i, position) ==
    IF i >= Len(sig) THEN <<>>
    ELSE LET p == IF v = "SMALL_CAPITAL" THEN LongOnly(position, PyAt(sig, i))
                  ELSE IF v = "ENHANCED" THEN LongShort(position, PyAt(sig, i))
                  ELSE IF i = 0 \/ i >= Len(sig) - 1 THEN position
                  ELSE LongShort(position, PyAt(sig, i))
         IN  <<p>> \o PositionsFrom(v, sig, i + 1, p)

ReplayPositions(v, sig) == PositionsFrom(v, sig, 0, 0)

\* the number of 0.001 deductions at each step of the SmallCapital replay
ReplayFees(sig) ==
    LET positions == ReplayPositions("SMALL_CAPITAL", sig)
    IN  [k \in 1..Len(sig) |-> FeesAt(SubSeq(sig, 1, k), k - 1, positions[k])]

\* what the replay of one strategy did: invocations, signals, positions,
\* deductions and the returns list
ReplayTrace(v, n, sig, close) ==
    LET answered == IF v = "ADAPTIVE" THEN SelectSeq(sig, IsSignal) ELSE sig
    IN  [calls |-> Cardinality(ReplaySteps(v, n)),
         signals |-> answered,
         positions |-> ReplayPositions(v, answered),
         fees |-> IF v = "SMALL_CAPITAL" THEN ReplayFees(answered) ELSE <<>>,
         returns |-> Returns(v, sig, close)]

RECURSIVE SumSeq(_)
SumSeq(q) == IF q = <<>> THEN 0 ELSE Head(q) + SumSeq(Tail(q))

RECURSIVE SumSquares(_)
SumSquares(q) == IF q = <<>> THEN 0 ELSE Head(q) * Head(q) + SumSquares(Tail(q))

SetMax(S) == CHOOSE x \in S : \A y \in S : y <= x

\* avg_return / std_return with std_return = 0.01 for a single return and
\* sharpe = 0 when the deviation is 0, in thousandths
Sharpe(returns) ==
    LET n == Len(returns)
        d == n * SumSquares(returns) - SumSeq(returns) * SumSeq(returns)
    IN  IF n = 1 THEN 100 * returns[1]
        ELSE IF d = 0 THEN 0
        ELSE (10000 * SumSeq(returns)) \div ISqrt(100 * d)

\* np.max(np.maximum.accumulate(cum) - cum), in thousandths
MaxDrawdown(returns) ==
    LET cum(k) == SumSeq(SubSeq(returns, 1, k))
    IN  SetMax({SetMax({cum(j) : j \in 1..k}) - cum(k) : k \in 1..Len(returns)})

\* share of the returns above the threshold (in two-thousandths), in thousandths
WinRate(returns, threshold) ==
    (1000 * Cardinality({k \in 1..Len(returns) : 2 * returns[k] > threshold}))
        \div Len(returns)

\* gross_profit / gross_loss, each replaced by 0.0001 when it is 0, in thousandths
ProfitFactor(returns) ==
    LET gain == SumSeq(SelectSeq(returns, LAMBDA r : r > 0))
        loss == -SumSeq(SelectSeq(returns, LAMBDA r : r < 0))
        gross_profit == IF gain = 0 THEN 1 ELSE 10 * gain
        gross_loss   == IF loss = 0 THEN 1 ELSE 10 * loss
    IN  (1000 * gross_profit) \div gross_loss

\* cumulative_return / (trade_frequency * 0.1 + 1), 0 without signal changes
CapitalEfficiency(returns, sig) ==
    LET trade_frequency == Cardinality({k \in 2..Len(sig) : sig[k] # sig[k - 1]})
    IN  IF trade_frequency > 0
        THEN (10 * SumSeq(returns)) \div (trade_frequency + 10)
        ELSE 0

\* SmallCapitalAdaptiveStrategy.min_expected_return, in two-thousandths
min_expected_return == 7

\* the score plus its 0.5 offset, without bounds
Offset(score, unit) == score + unit \div 2

\* max(0.1, min(1.0, score + 0.5)) for a score in 1/unit
Normalise(score, unit) == Clamp(unit \div 10, unit, score + unit \div 2)

\* the metrics and the score of one strategy from a non-empty returns list
Metrics(v, s, returns, sig) ==
    LET cumulative_return == SumSeq(returns)
        sharpe == Sharpe(returns)
        max_drawdown == IF v = "ADAPTIVE" THEN 0 ELSE MaxDrawdown(returns)
        win_rate == WinRate(returns, IF v = "SMALL_CAPITAL" THEN min_expected_return ELSE 0)
        extra == IF v = "ENHANCED" THEN ProfitFactor(returns)
                 ELSE IF v = "SMALL_CAPITAL" THEN CapitalEfficiency(returns, sig)
                 ELSE 0
        score == IF v = "ADAPTIVE"
                 THEN 100 * Normalise(4 * cumulative_return + 4 * win_rate + 2 * sharpe, 10000)
                 ELSE IF v = "ENHANCED"
                 THEN 100 * Normalise(3 * cumulative_return + 2 * sharpe
                                      + 2 * (1000 - max_drawdown) + 2 * win_rate + extra, 10000)
                 ELSE Normalise((35 * cumulative_return + 15 * sharpe + 20 * extra
                                 + 20 * win_rate + 10 * (1000 - max_drawdown))
                                * small_capital_weights[s], ScoreUnit)
    IN  [cumulative_return |-> cumulative_return, sharpe |-> sharpe,
         max_drawdown |-> max_drawdown, win_rate |-> win_rate, extra |-> extra,
         score |-> score]

ZeroMetrics ==
    [cumulative_return |-> 0, sharpe |-> 0, max_drawdown |-> 0, win_rate |-> 0,
     extra |-> 0, score |-> NeutralScore]

\* what one iteration of the scorer's loop over the catalog computes for
\* strategy s: whether the returns list is non-empty, and the metrics
OwnMetrics(v, s, sig, close) ==
    LET returns == Returns(v, sig, close)
    IN  IF returns = <<>>
        THEN [has_returns |-> FALSE, metrics |-> ZeroMetrics]
        ELSE [has_returns |-> TRUE, metrics |-> Metrics(v, s, returns, sig)]

\* the score the scorer of class v gives strategy s
StrategyScore(v, s, sig, close) == OwnMetrics(v, s, sig, close).metrics.score

\* the strategy raises on some / on every invocation of the replay
HasRaise(sig) == \E k \in DOMAIN sig : sig[k] = Raises
AlwaysRaises(sig) == \A k \in DOMAIN sig : sig[k] = Raises

\* the metrics the locals of the scorer hold after the k-th strategy of the
\* catalog: those of the latest strategy up to k that had returns
RECURSIVE LocalMetrics(_, _)
LocalMetrics(own, k) ==
    IF k = 0 THEN ZeroMetrics
    ELSE IF own[Catalog[k]].has_returns THEN own[Catalog[k]].metrics
    ELSE LocalMetrics(own, k - 1)

\* self.strategy_performance[strategy_name] as the k-th iteration stores it:
\* each metric from locals(), the score of this iteration
StoredPerformance(own, k) ==
    [LocalMetrics(own, k) EXCEPT !.score = own[Catalog[k]].metrics.score]

\* evaluate_strategy_performance of class v on a series of n candles
EvaluateStrategyPerformance(v, n, close, signals) ==
    LET failing == {k \in 1..Len(Catalog) : HasRaise(signals[Catalog[k]])}
        first   == CHOOSE k \in failing : \A j \in failing : k <= j
        last    == IF n < ScoreMinLen(v) \/ v = "ADAPTIVE" THEN 0
                   ELSE IF failing # {} THEN first - 1
                   ELSE Len(Catalog)
        own     == [s \in {Catalog[k] : k \in 1..last} |->
                       OwnMetrics(v, s, signals[s], close)]
        stored  == [s \in DOMAIN own |-> StoredPerformance(own, CatalogIndex(s))]
    IN  IF n < ScoreMinLen(v)
        THEN [outcome |-> "returned", error |-> "none",
              evaluations |-> [s \in Strategies |-> NeutralScore],
              performance |-> stored]
        ELSE IF v # "ADAPTIVE" /\ failing # {}
        THEN [outcome |-> "raised", error |-> "StrategyError",
              evaluations |-> [s \in {} |-> NeutralScore],
              performance |-> stored]
        ELSE [outcome |-> "returned", error |-> "none",
              evaluations |-> IF v = "ADAPTIVE"
                              THEN [s \in Strategies |-> StrategyScore(v, s, signals[s], close)]
                              ELSE [s \in Strategies |-> own[s].metrics.score],
              performance |-> stored]

\* close prices of the replayed candles
PriceLevels == {100, 125}

\* what a strategy answers on the K windows of one replay
HoldPattern(K) == [k \in 1..K |-> 0]
SignalPatterns(K) ==
    { HoldPattern(K),
      [k \in 1..K |-> IF k % 2 = 1 THEN -1 ELSE 1],
      [k \in 1..K |-> IF k = 1 THEN 1 ELSE -1],
      [k \in 1..K |-> Raises] }

\* the series and strategy answers an evaluation is run on: one series a
\* candle too short for the replay, and the replayable ones
ScoreInputs(v) ==
    [n : {ScoreMinLen(v) - 1},
     close : {[k \in 0..(NumCalls(v) - 1) |-> 100]},
     signals : {[s \in Strategies |-> HoldPattern(NumCalls(v))]}]
    \cup
    [n : {ScoreMinLen(v)},
     close : [0..(NumCalls(v) - 1) -> PriceLevels],
     signals : [Strategies -> SignalPatterns(NumCalls(v))]]

InitScore ==
    /\ variant \in Variants
    /\ current_strategy = None
    /\ consecutive_same_strategy = 0
    /\ strategy_changes = <<>>
    /\ previous_regime = None
    /\ cycles = 0
    /\ result = NoResult
    /\ input \in ScoreInputs(variant)
    /\ BotStart
    /\ historical_regimes = <<>>
    /\ HostStart

\* evaluate_strategy_performance(df)
EvaluateCall ==
    /\ result.op = "none"
    /\ LET e == EvaluateStrategyPerformance(variant, input.n, input.close, input.signals)
       IN  result' = [op |-> "evaluate", outcome |-> e.outcome, error |-> e.error,
                      evaluations |-> e.evaluations, performance |-> e.performance,
                      replay |-> IF input.n < ScoreMinLen(variant) THEN <<>>
                                 ELSE ReplayGeometry(variant, input.n),
                      trace |-> IF input.n < ScoreMinLen(variant) \/ e.outcome = "raised"
                                THEN <<>>
                                ELSE [s \in Strategies |->
                                         ReplayTrace(variant, input.n, input.signals[s],
                                                     input.close)]]
    /\ UNCHANGED <<variant, current_strategy, consecutive_same_strategy,
                   strategy_changes, previous_regime, cycles, input, historical_regimes, hostVars, botVars>>

NextScore == EvaluateCall

SpecScore == InitScore /\ [][NextScore]_vars

\* C8: every composite score evaluate_strategy_performance returns lies in
\* [0.1, 1.0], in each selector class and on the too-short series and the
\* empty returns list as well.
C8_ScoresBounded ==
    (result.op = "evaluate" /\ result.outcome = "returned")
        => \A s \in Strategies :
              /\ result.evaluations[s] >= ScoreUnit \div 10
              /\ result.evaluations[s] <= ScoreUnit

\* a replay that returned a score at a bound of the range for one strategy
\* and the neutral score for a strategy with an empty returns list
C8_Witness ==
    /\ result.op = "evaluate"
    /\ result.outcome = "returned"
    /\ input.n >= ScoreMinLen(variant)
    /\ \E s \in Strategies : result.evaluations[s] \in {ScoreUnit \div 10, ScoreUnit}
    /\ \E s \in Strategies :
          /\ Returns(variant, input.signals[s], input.close) = <<>>
          /\ result.evaluations[s] = NeutralScore


\* C6: when a catalog strategy raises on every invocation of the replay,
\* evaluate_strategy_performance still returns, gives that strategy the
\* neutral score 0.5 and gives every other strategy the score it gets when
\* the failing strategy answers without failing; in each selector class.
C6_FailingStrategyScoresNeutral ==
    result.op = "evaluate"
        => \A s \in Strategies :
              (input.n >= ScoreMinLen(variant) /\ AlwaysRaises(input.signals[s]))
                 => /\ result.outcome = "returned"
                    /\ result.evaluations[s] = NeutralScore
                    /\ \A t \in Strategies \ {s} :
                          result.evaluations[t]
                            = EvaluateStrategyPerformance(variant, input.n, input.close,
                                  [input.signals EXCEPT ![s] = HoldPattern(NumCalls(variant))]).evaluations[t]

\* a replay ran on a long enough series and no strategy invocation failed
CleanReplay ==
    /\ result.op = "evaluate"
    /\ result.outcome = "returned"
    /\ input.n >= ScoreMinLen(variant)
    /\ \A s \in Strategies : ~HasRaise(input.signals[s])

\* C17: in each scorer the window passed to the strategy at replay step i is
\* a strict prefix of the series, the window of the next step ends one
\* candle later, and the return step i contributes covers the period that
\* starts at the last candle of that window.
C17_NoLookAhead ==
    CleanReplay
        => \A i \in DOMAIN result.replay :
              LET r == result.replay[i]
              IN  /\ r.window.first = 0
                  /\ r.window.last < input.n - 1
                  /\ (i + 1) \in DOMAIN result.replay
                        => result.replay[i + 1].window.last = r.window.last + 1
                  /\ r.contributes
                        => /\ r.period.from = r.window.last
                           /\ r.period.to = r.window.last + 1

\* C18: in the Adaptive and the Enhanced scorer every strategy is invoked on
\* exactly lookback windows, the position starts flat, becomes +1 on a buy
\* signal when not long and -1 on a sell signal when not short and is
\* unchanged otherwise, and the returns list has lookback - 1 entries.
C18_ReplaySimulatesPosition ==
    (CleanReplay /\ variant \in {"ADAPTIVE", "ENHANCED"})
        => \A s \in Strategies :
              LET t == result.trace[s]
                  before(k) == IF k = 1 THEN 0 ELSE t.positions[k - 1]
              IN  /\ t.calls = ScoreLookback(variant)
                  /\ Len(t.signals) = ScoreLookback(variant)
                  /\ Len(t.returns) = ScoreLookback(variant) - 1
                  /\ \A k \in 1..Len(t.signals) :
                        t.positions[k] =
                            IF t.signals[k] = 1 /\ before(k) # 1 THEN 1
                            ELSE IF t.signals[k] = -1 /\ before(k) # -1 THEN -1
                            ELSE before(k)

\* C19: in the SmallCapital scorer the position is always flat or long, one
\* 0.001 deduction is applied at each step where the position opens (flat to
\* long) or closes (long to flat), and none at any other step.
C19_OneFeePerOpenAndClose ==
    (CleanReplay /\ variant = "SMALL_CAPITAL")
        => \A s \in Strategies :
              LET t == result.trace[s]
                  before(k) == IF k = 1 THEN 0 ELSE t.positions[k - 1]
              IN  \A k \in 1..Len(t.signals) :
                     /\ t.positions[k] \in {0, 1}
                     /\ t.fees[k] = IF t.positions[k] # before(k) THEN 1 ELSE 0

\* C20: after an evaluation the performance record stored for a strategy
\* holds the metrics of that strategy's own returns of this cycle; a
\* strategy without return periods is recorded with zero metrics and score
\* 0.5 whatever the strategies before it produced.
C20_PerformanceIsOwn ==
    (CleanReplay /\ variant \in {"ENHANCED", "SMALL_CAPITAL"})
        => \A s \in Strategies :
              LET own == OwnMetrics(variant, s, input.signals[s], input.close)
              IN  /\ result.performance[s] = own.metrics
                  /\ ~own.has_returns => result.performance[s] = ZeroMetrics

-----------------------------------------------------------------------------
(* Decision calls on one selector instance: AdaptiveStrategy.adaptive_strategy,
   EnhancedAdaptiveStrategy.enhanced_adaptive_strategy and
   SmallCapitalAdaptiveStrategy.smart_small_capital_strategy *)

\* what the selected strategy answers on the live series
LiveAnswers == {-1, 0, 1, Raises}

\* performance vectors of the decision calls: all neutral, or one strategy ahead
DecidePerfVectors ==
    {[s \in Strategies |-> 50]}
    \cup {[s \in Strategies |-> IF s = t THEN 75 ELSE 50] : t \in Strategies}

\* fewest candles on which the selection of class v runs in full
DecideFullLen(v) == IF v = "ADAPTIVE" THEN AdaptiveSelectMinLen ELSE AnalyzeMinLen

\* what a decision call leaves in result; regime is "absent" when the info
\* dictionary carries no regime
Decision(n, outcome, error, answer, regime, selected) ==
    [op |-> "decide", n |-> n, outcome |-> outcome, error |-> error,
     signal |-> answer, regime |-> regime, selected |-> selected]

\* a decision call on a series of n candles, too short for the selection:
\* AdaptiveStrategy answers (0, info) below 10 candles and runs its default
\* strategy from 10 candles on; the other two fail in select_best_strategy on
\* the missing 'recommended_strategy_weights' of the analysis
DecideShort(n, live) ==
    /\ cycles < MaxCycles
    /\ n < DecideFullLen(variant)
    /\ cycles' = cycles + 1
    /\ IF variant # "ADAPTIVE"
       THEN /\ result' = Decision(n, "raised", "KeyError", 0, "absent", None)
            /\ UNCHANGED current_strategy
       ELSE IF n < AdaptiveDecideMinLen
       THEN /\ result' = Decision(n, "returned", "none", 0, "absent", None)
            /\ UNCHANGED current_strategy
       ELSE /\ current_strategy' = "MULTI_INDICATOR"
            /\ result' = IF live = Raises
                         THEN Decision(n, "returned", "caught", 0, "absent", None)
                         ELSE Decision(n, "returned", "none", live,
                                       IF previous_regime = None THEN "unknown"
                                       ELSE previous_regime,
                                       "MULTI_INDICATOR")
    /\ UNCHANGED <<variant, consecutive_same_strategy, strategy_changes,
                   previous_regime, input, historical_regimes, hostVars, botVars>>

\* the state and result of a decision call whose selection r ran in full:
\* an exception of the selection or of the selected strategy leaves the call
\* unless the call catches it; the enhanced and small-capital selectors
\* append the regime to historical_regimes once the selected strategy has
\* answered
Decided(r, n, live, execute, catches) ==
    /\ cycles' = cycles + 1
    /\ current_strategy' = r.current
    /\ consecutive_same_strategy' = r.count
    /\ strategy_changes' = r.changes
    /\ previous_regime' = r.regime
    /\ result' =
         IF r.outcome = "raised"
         THEN Decision(n, "raised", r.error, 0, "absent", None)
         ELSE IF live = Raises
         THEN IF catches
              THEN Decision(n, "returned", "caught", 0, "absent", None)
              ELSE Decision(n, "raised", "StrategyError", 0, "absent", None)
         ELSE Decision(n, "returned", "none", IF execute THEN live ELSE 0,
                       r.regime, r.current)
    /\ historical_regimes' =
         IF variant # "ADAPTIVE" /\ r.outcome = "returned" /\ live # Raises
         THEN Append(historical_regimes, r.regime)
         ELSE historical_regimes
    /\ UNCHANGED <<variant, input, hostVars, botVars>>

\* enhanced_adaptive_strategy / smart_small_capital_strategy on a series long
\* enough for the analysis; execute is the answer of should_execute_trade
HystereticDecision(regime, double_top, volume_pressure, perf, live, execute) ==
    /\ variant \in {"ENHANCED", "SMALL_CAPITAL"}
    /\ variant = "ENHANCED" => execute
    /\ Decided(HysteresisSelect(variant, current_strategy, consecutive_same_strategy,
                                strategy_changes, regime, double_top,
                                volume_pressure, perf),
               AnalyzeMinLen, live, execute, FALSE)

Decide(regime, double_top, volume_pressure, perf, live, execute) ==
    /\ cycles < MaxCycles
    /\ HystereticDecision(regime, double_top, volume_pressure, perf, live, execute)

\* adaptive_strategy on a series of at least 20 candles
AdaptiveDecide(regime, perf, live) ==
    /\ cycles < MaxCycles
    /\ variant = "ADAPTIVE"
    /\ Decided(PlainSelect(current_strategy, consecutive_same_strategy,
                           strategy_changes, regime, perf),
               AdaptiveSelectMinLen, live, TRUE, TRUE)

\* enhanced_adaptive_strategy / smart_small_capital_strategy when a catalog
\* strategy raises during the replay of the scorer
DecideScoringFails(regime) ==
    /\ cycles < MaxCycles
    /\ variant \in {"ENHANCED", "SMALL_CAPITAL"}
    /\ cycles' = cycles + 1
    /\ previous_regime' = regime
    /\ result' = Decision(AnalyzeMinLen, "raised", "StrategyError", 0, "absent", None)
    /\ UNCHANGED <<variant, current_strategy, consecutive_same_strategy,
                   strategy_changes, input, historical_regimes, hostVars, botVars>>

NextDecide ==
    \/ \E n \in ShortLens, live \in LiveAnswers : DecideShort(n, live)
    \/ \E regime \in Regimes, volume_pressure \in {"neutral", "strong_selling"},
          perf \in DecidePerfVectors, live \in LiveAnswers, execute \in BOOLEAN :
            Decide(regime, FALSE, volume_pressure, perf, live, execute)
    \/ \E regime \in AdaptiveRegimes, perf \in DecidePerfVectors, live \in LiveAnswers :
            AdaptiveDecide(regime, perf, live)
    \/ \E regime \in Regimes : DecideScoringFails(regime)

SpecDecide == Init /\ [][NextDecide]_vars

\* C4: a decision call of any of the three selector classes returns a
\* complete (signal, info) result and never raises, whether the series is
\* too short for a component, a catalog strategy fails or the computation
\* degenerates.
C4_DecisionNeverRaises ==
    result.op = "decide" => result.outcome = "returned"

\* C5: a decision call of any of the three selector classes on a series of
\* 0, 1 or 4 candles does not raise and returns signal 0 with no regime or
\* an unknown/neutral regime.
C5_ShortSeriesDegrade ==
    (result.op = "decide" /\ result.n \in {0, 1, 4})
        => /\ result.outcome = "returned"
           /\ result.signal = 0
           /\ result.regime \in {"unknown", "neutral", "absent"}

-----------------------------------------------------------------------------
(* run_bot: the polling loop of the host.  One pass fetches the candles,
   prepares indicators, position and balance, asks the active strategy for a
   signal, checks the risk, sends the order, updates the display and sleeps.
   log_error and the sleep of the handler are taken to complete. *)

\* passes of the loop the model follows
MaxPolls == 3

\* the steps of a pass that can raise an Exception
LoopSteps == {"fetch", "prepare", "risk", "order", "display"}

\* a try block that covers the data fetch only
InsideTryFetchOnly(step) == step = "fetch"

\* the steps the try block of the loop body covers
InsideTry(step) == step \in LoopSteps

\* the loop starts its next pass
NextPass ==
    /\ pc' = "fetch"
    /\ polls' = polls + 1
    /\ strategy_failed' = FALSE
    /\ order_placed' = FALSE

\* an Exception raised at a step: the except clause of the loop body takes
\* it when the step is inside the try block, else it leaves run_bot
Raise(step) ==
    IF InsideTry(step)
    THEN pc' = "handler" /\ caught' = step /\ UNCHANGED exit
    ELSE pc' = "stopped" /\ exit' = "Exception" /\ UNCHANGED caught

\* exchange_handler.get_historical_data and the empty-data branch
Fetch(outcome) ==
    /\ pc = "fetch"
    /\ polls < MaxPolls
    /\ CASE outcome = "data" ->
              /\ pc' = "prepare"
              /\ consecutive_failures' = 0
              /\ UNCHANGED <<strategy_failed, order_placed, polls, exit, caught>>
         [] outcome = "empty" ->
              /\ consecutive_failures' = consecutive_failures + 1
              /\ NextPass
              /\ UNCHANGED <<exit, caught>>
         [] outcome = "empty_display_raises" ->
              /\ consecutive_failures' = consecutive_failures + 1
              /\ Raise("display")
              /\ UNCHANGED <<strategy_failed, order_placed, polls>>
         [] outcome = "raises" ->
              /\ Raise("fetch")
              /\ UNCHANGED <<consecutive_failures, strategy_failed, order_placed, polls>>
    /\ UNCHANGED <<signal, selectorVars, input, historical_regimes, hostVars>>

\* calculate_all_indicators, load_position_state, fetch_balance (with its own
\* except clause) and save_position_state
Prepare(outcome) ==
    /\ pc = "prepare"
    /\ IF outcome = "raises"
       THEN Raise("prepare")
       ELSE pc' = "strategy" /\ UNCHANGED <<exit, caught>>
    /\ UNCHANGED <<consecutive_failures, signal, strategy_failed, order_placed, polls,
                   selectorVars, input, historical_regimes, hostVars>>

\* the call of the active strategy inside its own try/except
Strategy(answer) ==
    /\ pc = "strategy"
    /\ pc' = "risk"
    /\ signal' = IF answer = Raises THEN 0 ELSE answer
    /\ strategy_failed' = (answer = Raises)
    /\ UNCHANGED <<consecutive_failures, order_placed, polls, exit, caught,
                   selectorVars, input, historical_regimes, hostVars>>

\* risk_management.check_risk and execute_trade = allow_trade and signal != 0
Risk(outcome) ==
    /\ pc = "risk"
    /\ IF outcome = "raises"
       THEN Raise("risk")
       ELSE /\ pc' = IF outcome = "allow" /\ signal # 0 THEN "order" ELSE "display"
            /\ UNCHANGED <<exit, caught>>
    /\ UNCHANGED <<consecutive_failures, signal, strategy_failed, order_placed, polls,
                   selectorVars, input, historical_regimes, hostVars>>

\* the order branch of the pass: an order is sent, or the position leaves
\* nothing to do, or the exchange call raises
Order(outcome) ==
    /\ pc = "order"
    /\ IF outcome = "raises"
       THEN Raise("order") /\ UNCHANGED order_placed
       ELSE /\ pc' = "display"
            /\ order_placed' = (outcome = "sent")
            /\ UNCHANGED <<exit, caught>>
    /\ UNCHANGED <<consecutive_failures, signal, strategy_failed, polls,
                   selectorVars, input, historical_regimes, hostVars>>

\* utils.update_display and the periodic position check
Display(outcome) ==
    /\ pc = "display"
    /\ IF outcome = "raises"
       THEN Raise("display")
       ELSE pc' = "sleep" /\ UNCHANGED <<exit, caught>>
    /\ UNCHANGED <<consecutive_failures, signal, strategy_failed, order_placed, polls,
                   selectorVars, input, historical_regimes, hostVars>>

\* time.sleep(config.UPDATE_INTERVAL) at the end of a pass
Sleep ==
    /\ pc = "sleep"
    /\ NextPass
    /\ UNCHANGED <<consecutive_failures, signal, exit, caught, selectorVars, input, historical_regimes, hostVars>>

\* except Exception as e: count the failure, log it, wait, go on
Handler ==
    /\ pc = "handler"
    /\ consecutive_failures' = consecutive_failures + 1
    /\ NextPass
    /\ UNCHANGED <<signal, exit, caught, selectorVars, input, historical_regimes, hostVars>>

\* KeyboardInterrupt anywhere in the loop: except KeyboardInterrupt ends run_bot
Interrupt ==
    /\ pc # "stopped"
    /\ pc' = "stopped"
    /\ exit' = "KeyboardInterrupt"
    /\ UNCHANGED <<consecutive_failures, signal, strategy_failed, order_placed, polls,
                   caught, selectorVars, input, historical_regimes, hostVars>>

NextBot ==
    \/ \E outcome \in {"data", "empty", "empty_display_raises", "raises"} : Fetch(outcome)
    \/ \E outcome \in {"ok", "raises"} : Prepare(outcome)
    \/ \E answer \in LiveAnswers : Strategy(answer)
    \/ \E outcome \in {"allow", "deny", "raises"} : Risk(outcome)
    \/ \E outcome \in {"sent", "skipped", "raises"} : Order(outcome)
    \/ \E outcome \in {"ok", "raises"} : Display(outcome)
    \/ Sleep
    \/ Handler
    \/ Interrupt

SpecBot == Init /\ [][NextBot]_vars

-----------------------------------------------------------------------------
(* SmallCapitalAdaptiveStrategy.select_best_strategy with the analysis it
   makes and the risk settings it derives.  risk_per_trade and
   recommended_position_pct are in 1/40000000 (base risk in 1/10000 times
   multiplier in 1/4000). *)

\* the cap min(risk_per_trade, 0.015)
SmallRiskCap == 600000

\* self.max_allocation_percent = 0.40
max_allocation_percent == 16000000

\* a selector that hands on the settings of the adjuster as they are
KeepsAdjusterSettings(risk) ==
    [risk_adjustments |-> risk,
     recommended_position_pct |-> Min(max_allocation_percent, risk.risk_per_trade * 8)]

\* the settings for small accounts derived from the result of adjust_risk
SmallCapitalOverride(risk) ==
    LET capped == Min(risk.risk_per_trade, SmallRiskCap)
    IN  [risk_adjustments |->
             [risk EXCEPT !.risk_per_trade = capped,
                          !.take_profit_percent = (risk.stop_loss_percent * 25) \div 10],
         recommended_position_pct |-> Min(max_allocation_percent, capped * 8)]

\* the series of the small-capital selector
SmallInputs ==
    [n : {29, 30}, regime : Regimes, has_volume : BOOLEAN,
     vol_ratio : {0, 100, 1000}, has_spike : {FALSE}, volume_change : {0}]

InitSmall ==
    /\ variant = "SMALL_CAPITAL"
    /\ current_strategy = None
    /\ consecutive_same_strategy = 0
    /\ strategy_changes = <<>>
    /\ previous_regime = None
    /\ cycles = 0
    /\ result = NoResult
    /\ input \in SmallInputs
    /\ BotStart
    /\ historical_regimes = <<>>
    /\ HostStart

\* select_best_strategy on the series: below 30 candles the analysis carries
\* no 'recommended_strategy_weights' and the call fails; from 30 candles on
\* the selection runs, the risk settings are derived and the change log is
\* saved when it is not empty
SmallSelectBestStrategy(double_top, perf) ==
    /\ cycles < MaxCycles
    /\ cycles' = cycles + 1
    /\ LET a == Analyze(input.n, input.regime, input.has_volume, input.vol_ratio,
                        input.has_spike, input.volume_change)
       IN  IF input.n < AnalyzeMinLen
           THEN /\ result' = [NoResult EXCEPT !.op = "select", !.prev = current_strategy,
                                              !.outcome = "raised", !.error = "KeyError"]
                /\ UNCHANGED <<current_strategy, consecutive_same_strategy,
                               strategy_changes, previous_regime>>
           ELSE LET r == HysteresisSelect(variant, current_strategy,
                                          consecutive_same_strategy, strategy_changes,
                                          a.regime, double_top, a.volume_pressure, perf)
                    adjusted == AdjustRisk(BaseRisk(variant), a)
                    settings == SmallCapitalOverride(adjusted)
                IN  /\ current_strategy' = r.current
                    /\ consecutive_same_strategy' = r.count
                    /\ strategy_changes' = r.changes
                    /\ previous_regime' = r.regime
                    /\ result' = [op |-> "select", outcome |-> r.outcome,
                                  error |-> r.error, prev |-> current_strategy,
                                  candidate |-> r.candidate, gap |-> r.gap,
                                  close |-> r.close, held |-> r.held,
                                  selected |-> IF r.outcome = "returned"
                                               THEN r.current ELSE None,
                                  analysis |-> a,
                                  adjusted |-> adjusted,
                                  risk_adjustments |-> settings.risk_adjustments,
                                  recommended_position_pct |->
                                      settings.recommended_position_pct]
    /\ UNCHANGED <<variant, input, historical_regimes, hostVars, botVars>>

\* market_condition_scores.get(regime, 0.5), in tenths
MarketConditionScore(regime) ==
    CASE regime = "strong_uptrend"     -> 9
      [] regime = "weak_uptrend"       -> 7
      [] regime = "ranging_narrow"     -> 6
      [] regime = "ranging_wide"       -> 5
      [] regime = "weak_downtrend"     -> 3
      [] regime = "strong_downtrend"   -> 1
      [] regime = "high_volatility"    -> 4
      [] regime = "low_volatility"     -> 8
      [] regime = "breakout_potential" -> 8
      [] OTHER                         -> 5

\* required_hours between two trades
RequiredHours(market_score) ==
    IF market_score > 7 THEN 2 ELSE IF market_score > 5 THEN 1 ELSE 4

\* signal_strength = 0.7 * mean of the stored scores + 0.3 * agreeing / 5, in
\* 1/5000: perf holds the stored scores in hundredths, agreeing is the number
\* of strategies whose stored cumulative return has the sign of the signal
SignalStrength(perf, agreeing) ==
    7 * (perf.SMA_CROSSOVER + perf.RSI + perf.MACD + perf.BOLLINGER_BANDS
         + perf.MULTI_INDICATOR)
    + 300 * agreeing

\* 0.8 and 0.6 in the unit of SignalStrength
StrongSignal == 4000
ModerateSignal == 3000

\* SmallCapitalAdaptiveStrategy.should_execute_trade: balance_ok tells whether
\* the balance reaches the minimum, hours is the whole number of hours since
\* last_trade_time, last_price and last_time are the fields of the instance
ShouldExecuteTrade(sig, price, balance_ok, regime, hours, perf, agreeing, last_price, last_time) ==
    LET market_score == MarketConditionScore(regime)
        required == RequiredHours(market_score)
        waits == last_time # None /\ hours < required
        \* time_factor in hundredths
        time_factor == IF waits THEN (100 * hours) \div required ELSE 100
        strength == SignalStrength(perf, agreeing)
        \* price_change = (price - last_price) / last_price, compared exactly
        diff == price - last_price
        decision_score == 2000 * market_score + 4 * strength + 100 * time_factor
        threshold == IF sig > 0 THEN 30000 ELSE 25000
        final == IF sig > 0 /\ regime \in {"strong_downtrend", "high_volatility"}
                    /\ strength < StrongSignal
                 THEN [execute |-> FALSE, reason |-> "unfavourable"]
                 ELSE IF decision_score >= threshold
                 THEN [execute |-> TRUE, reason |-> "confirmed"]
                 ELSE [execute |-> FALSE, reason |-> "weak"]
    IN  IF sig = 0 THEN [execute |-> FALSE, reason |-> "no_signal"]
        ELSE IF ~balance_ok THEN [execute |-> FALSE, reason |-> "balance"]
        ELSE IF waits /\ time_factor < 50 THEN [execute |-> FALSE, reason |-> "too_soon"]
        ELSE IF last_price > 0 /\ sig > 0
        THEN IF 100 * diff > last_price /\ market_score < 7
             THEN [execute |-> FALSE, reason |-> "price_higher"]
             ELSE IF 100 * diff
                       < (IF market_score > 7 THEN 0 - 2 ELSE 0 - 5) * last_price
             THEN [execute |-> TRUE, reason |-> "dca"]
             ELSE final
        ELSE IF last_price > 0 /\ sig < 0
        THEN IF 1000 * diff > (IF market_score > 7 THEN 20 ELSE 35) * last_price
             THEN [execute |-> TRUE, reason |-> "take_profit"]
             ELSE IF 100 * diff < (IF market_score > 5 THEN 0 - 3 ELSE 0 - 2) * last_price
             THEN [execute |-> TRUE, reason |-> "stop_loss"]
             ELSE IF diff < 0 /\ market_score < 3
             THEN [execute |-> TRUE, reason |-> "small_loss"]
             ELSE IF 1000 * Abs(diff) < 15 * last_price /\ strength < ModerateSignal
             THEN [execute |-> FALSE, reason |-> "hold"]
             ELSE final
        ELSE final

\* what a decision call of the small-capital selector leaves in result
SmallDecision(outcome, error, original, answer, regime, price, strength, reason) ==
    [op |-> "decide", outcome |-> outcome, error |-> error,
     original_signal |-> original, signal |-> answer, regime |-> regime,
     price |-> price, signal_strength |-> strength, reason |-> reason]

\* smart_small_capital_strategy on the series, whose last close is price: the
\* selection with its risk settings, the answer of the selected strategy, the
\* regime history and the trade gate
SmartSmallCapitalStrategy(perf, agreeing, live, balance_ok, price, hours) ==
    /\ cycles < MaxCycles
    /\ cycles' = cycles + 1
    /\ LET a == Analyze(input.n, input.regime, input.has_volume, input.vol_ratio,
                        input.has_spike, input.volume_change)
       IN  IF input.n < AnalyzeMinLen
           THEN /\ result' = SmallDecision("raised", "KeyError", 0, 0, "absent", price, 0,
                                           "none")
                /\ UNCHANGED <<current_strategy, consecutive_same_strategy,
                               strategy_changes, previous_regime, historical_regimes>>
           ELSE LET r == HysteresisSelect(variant, current_strategy,
                                          consecutive_same_strategy, strategy_changes,
                                          a.regime, FALSE, a.volume_pressure, perf)
                    gate == ShouldExecuteTrade(live, price, balance_ok, a.regime, hours,
                                               perf, agreeing, last_buy_price,
                                               last_trade_time)
                IN  /\ current_strategy' = r.current
                    /\ consecutive_same_strategy' = r.count
                    /\ strategy_changes' = r.changes
                    /\ previous_regime' = r.regime
                    /\ IF r.outcome = "raised"
                       THEN /\ result' = SmallDecision("raised", r.error, 0, 0, "absent",
                                                       price, 0, "none")
                            /\ UNCHANGED historical_regimes
                       ELSE IF live = Raises
                       THEN /\ result' = SmallDecision("raised", "StrategyError", 0, 0,
                                                       "absent", price, 0, "none")
                            /\ UNCHANGED historical_regimes
                       ELSE /\ historical_regimes' = Append(historical_regimes, a.regime)
                            /\ result' = SmallDecision("returned", "none", live,
                                                       IF gate.execute THEN live ELSE 0,
                                                       a.regime, price,
                                                       SignalStrength(perf, agreeing),
                                                       gate.reason)
    /\ UNCHANGED <<variant, input, hostVars, botVars>>

\* run_bot in spot mode after a buy order of the small-capital strategy went
\* through: it stores the price and the time of the buy on the instance
RecordBuy ==
    /\ result.op = "decide"
    /\ result.outcome = "returned"
    /\ result.signal = 1
    /\ last_buy_price' = result.price
    /\ last_trade_time' = "set"
    /\ result' = [op |-> "buy", price |-> result.price]
    /\ UNCHANGED <<variant, current_strategy, consecutive_same_strategy,
                   strategy_changes, previous_regime, cycles, input, botVars,
                   historical_regimes, historical_signals, historical_results,
                   day_trader, today, factory, current_position, entry_price, orders,
                   trades>>

\* the stored scores of the decision calls: all neutral, or all at the top
SmallDecidePerf == {[s \in Strategies |-> 50], [s \in Strategies |-> 100]}

NextSmall ==
    \E double_top \in BOOLEAN, perf \in DecidePerfVectors :
        SmallSelectBestStrategy(double_top, perf)

SpecSmall == InitSmall /\ [][NextSmall]_vars

\* the series of the decision calls
GateInputs ==
    [n : {29, 30}, regime : Regimes, has_volume : {TRUE}, vol_ratio : {100},
     has_spike : {FALSE}, volume_change : {0}]

InitGate ==
    /\ variant = "SMALL_CAPITAL"
    /\ current_strategy = None
    /\ consecutive_same_strategy = 0
    /\ strategy_changes = <<>>
    /\ previous_regime = None
    /\ cycles = 0
    /\ result = NoResult
    /\ input \in GateInputs
    /\ BotStart
    /\ historical_regimes = <<>>
    /\ HostStart

NextGate ==
    \/ \E perf \in SmallDecidePerf, agreeing \in {0, 5}, live \in LiveAnswers,
          balance_ok \in BOOLEAN, price \in {90, 100}, hours \in {0, 5} :
          SmartSmallCapitalStrategy(perf, agreeing, live, balance_ok, price, hours)
    \/ RecordBuy

SpecGate == InitGate /\ [][NextGate]_vars

\* C29: for a buy signal of the selected strategy in regime strong_downtrend
\* or high_volatility with signal strength below 0.8, should_execute_trade
\* answers False on every path, also after the price has dropped below the
\* last buy price, and smart_small_capital_strategy returns signal 0.
C29_UnfavourableRegimeBlocksBuys ==
    (/\ result.op = "decide"
     /\ result.outcome = "returned"
     /\ result.original_signal = 1
     /\ result.regime \in {"strong_downtrend", "high_volatility"}
     /\ result.signal_strength < StrongSignal)
        => result.signal = 0

\* C22: in every result of the small-capital select_best_strategy that
\* completes, risk_per_trade is at most 0.015, take_profit_percent is exactly
\* 2.5 times stop_loss_percent whatever take-profit the adjuster derived, and
\* recommended_position_pct is at most 0.40.
C22_SmallCapitalRiskOverride ==
    (result.op = "select" /\ result.outcome = "returned")
        => /\ result.risk_adjustments.risk_per_trade <= SmallRiskCap
           /\ 2 * result.risk_adjustments.take_profit_percent
                = 5 * result.risk_adjustments.stop_loss_percent
           /\ result.recommended_position_pct <= max_allocation_percent

\* a completed selection whose adjuster had stretched the take-profit for the
\* volume and whose result carries 2.5 times the stop-loss instead
C22_Witness ==
    /\ result.op = "select"
    /\ result.outcome = "returned"
    /\ result.analysis.regime = "breakout_potential"
    /\ result.adjusted.take_profit_percent = 6240
    /\ result.risk_adjustments.stop_loss_percent = 2600
    /\ result.risk_adjustments.take_profit_percent = 6500
    /\ result.recommended_position_pct = 8 * result.risk_adjustments.risk_per_trade

-----------------------------------------------------------------------------
(* StrategyFactory.get_strategy and strategies.get_strategy_signal.  A
   strategy function is named by the key under which the factory registers
   it at its initialisation or in its dynamic branches. *)

\* the keys registered by StrategyFactory.initialize
InitialStrategies ==
    Strategies \cup {"AGGRESSIVE_TEST", "DAY_TRADER"}

\* the keys the dynamic branches of get_strategy load on first request
DynamicStrategies == {"ADAPTIVE", "ENHANCED_ADAPTIVE", "SMALL_CAPITAL"}

\* the closed set of strategy identities
KnownStrategies == InitialStrategies \cup DynamicStrategies

\* names that are not strategy identities
UnknownNames == {"RSII", "rsi", "MULTI", "adaptive"}

RequestedNames == {"RSI", "MULTI_INDICATOR", "DAY_TRADER"} \cup DynamicStrategies \cup UnknownNames

\* strategy_name.lower()
Lower(name) ==
    CASE name = "RSI"               -> "rsi"
      [] name = "MULTI_INDICATOR"   -> "multi_indicator"
      [] name = "DAY_TRADER"        -> "day_trader"
      [] name = "ADAPTIVE"          -> "adaptive"
      [] name = "ENHANCED_ADAPTIVE" -> "enhanced_adaptive"
      [] name = "SMALL_CAPITAL"     -> "small_capital"
      [] name = "RSII"              -> "rsii"
      [] name = "MULTI"             -> "multi"
      [] OTHER                      -> name

\* the function importlib finds as <lower>_strategy in module <lower>_strategy;
\* None when the import or the getattr fails
ImportedStrategy(lower) ==
    CASE lower = "adaptive"          -> "ADAPTIVE"
      [] lower = "enhanced_adaptive" -> "ENHANCED_ADAPTIVE"
      [] lower = "small_capital"     -> "SMALL_CAPITAL"
      [] lower = "day_trader"        -> "DAY_TRADER"
      [] OTHER                       -> None

\* the registry after StrategyFactory.initialize has run
Initialized(f) ==
    IF f.initialized THEN f
    ELSE [initialized |-> TRUE, strategies |-> f.strategies \cup InitialStrategies]

\* StrategyFactory.get_strategy: the registry it leaves and the function it
\* returns; fallback is TRUE when the default strategy stands in for a name
\* that was not found
GetStrategy(f, strategy_name) ==
    LET g == Initialized(f)
        imported == ImportedStrategy(Lower(strategy_name))
    IN  IF strategy_name \in g.strategies \/ strategy_name \in DynamicStrategies
        THEN [factory |-> [g EXCEPT !.strategies = @ \cup {strategy_name}],
              function |-> strategy_name, fallback |-> FALSE]
        ELSE IF imported # None
        THEN [factory |-> [g EXCEPT !.strategies = @ \cup {strategy_name}],
              function |-> imported, fallback |-> FALSE]
        ELSE [factory |-> g, function |-> "MULTI_INDICATOR", fallback |-> TRUE]

\* series lengths around the minimum of get_strategy_signal
SignalLens == {0, 2, 3, 50}

InitFactory ==
    /\ variant = "ADAPTIVE"
    /\ current_strategy = None
    /\ consecutive_same_strategy = 0
    /\ strategy_changes = <<>>
    /\ previous_regime = None
    /\ cycles = 0
    /\ result = NoResult
    /\ input = None
    /\ BotStart
    /\ historical_regimes = <<>>
    /\ HostStart

\* StrategyFactory.get_strategy(strategy_name)
GetStrategyCall(strategy_name) ==
    /\ LET r == GetStrategy(factory, strategy_name)
       IN  /\ factory' = r.factory
           /\ result' = [op |-> "get_strategy", strategy_name |-> strategy_name,
                         function |-> r.function, fallback |-> r.fallback]
    /\ UNCHANGED <<variant, current_strategy, consecutive_same_strategy,
                   strategy_changes, previous_regime, cycles, input, botVars, historical_regimes,
                   last_buy_price, last_trade_time, historical_signals,
                   historical_results, day_trader, today, current_position,
                   entry_price, orders, trades>>

\* strategies.get_strategy_signal(df, strategy_name) on a series of n candles;
\* answer is what the strategy function does on df
GetStrategySignal(n, strategy_name, answer) ==
    /\ IF n < 3
       THEN /\ result' = [op |-> "get_strategy_signal", strategy_name |-> strategy_name,
                          n |-> n, signal |-> 0, function |-> None,
                          diagnostic |-> "insufficient_data"]
            /\ UNCHANGED factory
       ELSE LET r == GetStrategy(factory, strategy_name)
            IN  /\ factory' = r.factory
                /\ result' =
                     IF r.function = None
                     THEN [op |-> "get_strategy_signal", strategy_name |-> strategy_name,
                           n |-> n, signal |-> 0, function |-> None,
                           diagnostic |-> "error"]
                     ELSE IF answer = Raises
                     THEN [op |-> "get_strategy_signal", strategy_name |-> strategy_name,
                           n |-> n, signal |-> 0, function |-> r.function,
                           diagnostic |-> "error"]
                     ELSE [op |-> "get_strategy_signal", strategy_name |-> strategy_name,
                           n |-> n, signal |-> answer, function |-> r.function,
                           diagnostic |-> "none"]
    /\ UNCHANGED <<variant, current_strategy, consecutive_same_strategy,
                   strategy_changes, previous_regime, cycles, input, botVars, historical_regimes,
                   last_buy_price, last_trade_time, historical_signals,
                   historical_results, day_trader, today, current_position,
                   entry_price, orders, trades>>

NextFactory ==
    \/ \E strategy_name \in RequestedNames : GetStrategyCall(strategy_name)
    \/ \E n \in SignalLens, strategy_name \in RequestedNames, answer \in LiveAnswers :
          GetStrategySignal(n, strategy_name, answer)

SpecFactory == InitFactory /\ [][NextFactory]_vars

\* C25: a request for a name outside the closed set of strategy identities is
\* reported as an error (get_strategy hands out no function,
\* get_strategy_signal answers hold with an error diagnostic) and no other
\* strategy's function stands in for it.
C25_UnknownNameIsAnError ==
    /\ (result.op = "get_strategy" /\ result.strategy_name \notin KnownStrategies)
         => result.function = None
    /\ (result.op = "get_strategy_signal" /\ result.strategy_name \notin KnownStrategies
        /\ result.n >= 3)
         => /\ result.signal = 0
            /\ result.diagnostic = "error"
            /\ result.function = None

-----------------------------------------------------------------------------
(* run_bot in futures-testnet mode: the order branch of a pass.  Quantities
   are multiples of the position size; the position of the next pass is what
   the filled orders leave on the exchange. *)

\* risk_management.calculate_position_size, as one unit
PositionSize == 1

\* prices of the passes
PassPrices == {90, 100, 110}

\* the order that closes the open position opposite to the signal, if any
ClosingOrders(sig, close_ok) ==
    IF (sig > 0 /\ current_position < 0) \/ (sig < 0 /\ current_position > 0)
    THEN <<[purpose |-> "close", side |-> IF sig > 0 THEN "buy" ELSE "sell",
            amount |-> Abs(current_position), ok |-> close_ok]>>
    ELSE <<>>

\* the order that opens the position the signal asks for
OpeningOrders(sig, open_ok) ==
    IF (sig > 0 /\ current_position <= 0) \/ (sig < 0 /\ current_position >= 0)
    THEN <<[purpose |-> "open", side |-> IF sig > 0 THEN "buy" ELSE "sell",
            amount |-> PositionSize, ok |-> open_ok]>>
    ELSE <<>>

\* the quantity a sequence of orders adds to the position
RECURSIVE Filled(_)
Filled(os) ==
    IF os = <<>> THEN 0
    ELSE (IF ~Head(os).ok THEN 0
          ELSE IF Head(os).side = "buy" THEN Head(os).amount
          ELSE 0 - Head(os).amount) + Filled(Tail(os))

\* performance_tracker.add_trade for a closing order that succeeded
ClosedTrades(sig, price, closing) ==
    IF closing # <<>> /\ closing[1].ok /\ entry_price > 0
    THEN <<[type |-> IF sig > 0 THEN "SHORT" ELSE "LONG",
            entry_price |-> entry_price, exit_price |-> price,
            profit |-> IF sig > 0
                       THEN Abs(current_position) * (entry_price - price)
                       ELSE current_position * (price - entry_price),
            pass |-> polls + 1]>>
    ELSE <<>>

\* one pass of the loop in futures-testnet mode, from the signal to the
\* orders: allow is risk_result['allow_trade'], close_ok and open_ok tell
\* whether exchange_handler.execute_trade returns an order or None
FuturesPass(sig, allow, price, close_ok, open_ok) ==
    /\ polls < MaxPolls
    /\ polls' = polls + 1
    /\ signal' = sig
    /\ IF allow /\ sig # 0
       THEN LET closing == ClosingOrders(sig, close_ok)
                opening == OpeningOrders(sig, open_ok)
            IN  /\ orders' = closing \o opening
                /\ trades' = trades \o ClosedTrades(sig, price, closing)
                /\ current_position' = current_position + Filled(closing \o opening)
                /\ entry_price' = IF opening # <<>> /\ open_ok THEN price ELSE entry_price
                /\ order_placed' = (closing \o opening # <<>>)
       ELSE /\ orders' = <<>>
            /\ order_placed' = FALSE
            /\ UNCHANGED <<trades, current_position, entry_price>>
    /\ UNCHANGED <<selectorVars, input, historical_regimes, pc, consecutive_failures,
                   strategy_failed, exit, caught, last_buy_price, last_trade_time,
                   historical_signals, historical_results, day_trader, today, factory>>

NextFutures ==
    \E sig \in {-1, 0, 1}, allow \in BOOLEAN, price \in PassPrices,
       close_ok \in BOOLEAN, open_ok \in BOOLEAN :
        FuturesPass(sig, allow, price, close_ok, open_ok)

SpecFutures == Init /\ [][NextFutures]_vars

\* C28: in a pass on a signal opposite to the open position, the opening
\* order is placed only after the closing order has succeeded; when the
\* closing order fails no opening order is placed in that pass; and a trade
\* with its realised profit is recorded only for a close that succeeded.
C28_OpenOnlyAfterCloseSucceeded ==
    /\ \A i \in 1..Len(orders) :
          (orders[i].purpose = "close" /\ ~orders[i].ok)
             => \A j \in 1..Len(orders) : orders[j].purpose # "open"
    /\ \A i \in 1..Len(orders) :
          (orders[i].purpose = "open" /\ \E j \in 1..Len(orders) : orders[j].purpose = "close")
             => \E j \in 1..(i - 1) : orders[j].purpose = "close" /\ orders[j].ok
    /\ \A k \in 1..Len(trades) :
          trades[k].pass = polls
             => \E j \in 1..Len(orders) : orders[j].purpose = "close" /\ orders[j].ok

-----------------------------------------------------------------------------
(* SimpleDayTraderStrategy: day_trader_strategy with its trade gate and
   record_trade_result.  daily_profit, the profit of a trade and the two
   daily limits are in thousandths; today is the calendar day of the clock. *)

\* calls on the day-trader instance and days the model follows
MaxTraderCalls == 5
MaxDays == 2

\* len(self.performance_history) > 30
PerformanceHistoryCap == 30

\* param_ranges['daily_profit_target'][1] and param_ranges['max_daily_loss'][1]
OptimisedProfitTarget == 25
OptimisedMaxLoss == 20

\* the trades maybe_optimize_parameters needs
OptimisationMinTrades == 10

\* list[-cap:] after an append
KeepLast(q, cap) ==
    IF Len(q) > cap THEN SubSeq(q, Len(q) - cap + 1, Len(q)) ELSE q

\* daily_profit is at or beyond one of the daily limits of the instance d
AtDailyLimit(d) ==
    \/ d.daily_profit >= d.daily_profit_target
    \/ d.daily_profit <= 0 - d.max_daily_loss

\* the tracking of the instance d after the day check of should_execute_trade
DayChecked(d) ==
    IF today # d.current_day
    THEN [d EXCEPT !.daily_profit = 0, !.daily_trades = 0, !.current_day = today]
    ELSE d

\* SimpleDayTraderStrategy.should_execute_trade for a signal beyond the
\* threshold (1 or -1) or within it (0): the instance it leaves and its
\* answer.  interval_over tells whether min_trade_interval has passed since
\* last_trade_time, optimised whether maybe_optimize_parameters finds and
\* applies better parameters
DayTraderGate(d, sig, price, interval_over, optimised) ==
    IF sig = 0
    THEN [trader |-> d, execute |-> FALSE, reason |-> "weak"]
    ELSE LET c == DayChecked(d)
         IN  IF c.daily_profit >= c.daily_profit_target
             THEN [trader |-> c, execute |-> FALSE, reason |-> "profit_target"]
             ELSE IF c.daily_profit <= 0 - c.max_daily_loss
             THEN [trader |-> c, execute |-> FALSE, reason |-> "max_loss"]
             ELSE IF c.last_trade_time # None /\ ~interval_over
             THEN [trader |-> c, execute |-> FALSE, reason |-> "too_soon"]
             ELSE IF /\ c.last_trade_type = "BUY" /\ c.last_trade_price > 0 /\ sig > 0
                     /\ 100 * (price - c.last_trade_price) > c.last_trade_price
             THEN [trader |-> c, execute |-> FALSE, reason |-> "price_higher"]
             ELSE [trader |->
                      IF optimised /\ Len(c.performance_history) >= OptimisationMinTrades
                      THEN [c EXCEPT !.daily_profit_target = OptimisedProfitTarget,
                                     !.max_daily_loss = OptimisedMaxLoss]
                      ELSE c,
                   execute |-> TRUE, reason |-> "confirmed"]

\* the day on which a record_trade_result call last left daily_profit at or
\* beyond a daily limit (0: never)
LimitReachedOn(d, before) ==
    IF AtDailyLimit(d) THEN today ELSE before

InitTrader ==
    /\ variant = "ADAPTIVE"
    /\ current_strategy = None
    /\ consecutive_same_strategy = 0
    /\ strategy_changes = <<>>
    /\ previous_regime = None
    /\ cycles = 0
    /\ result = [op |-> "none", signal |-> 0, reason |-> "none", limit_reached_on |-> 0]
    /\ input = None
    /\ BotStart
    /\ historical_regimes = <<>>
    /\ HostStart

\* day_trader_strategy(df) on a series of n candles whose last close is
\* price; strength is the sign of the signal strength where it lies beyond
\* the threshold, else 0
DayTraderStrategy(n, strength, price, interval_over, optimised) ==
    /\ cycles' = cycles + 1
    /\ IF n < 10
       THEN /\ result' = [op |-> "day_trader_strategy", signal |-> 0,
                          reason |-> "insufficient_data",
                          limit_reached_on |-> result.limit_reached_on]
            /\ UNCHANGED day_trader
       ELSE LET g == DayTraderGate(day_trader, strength, price, interval_over, optimised)
            IN  /\ day_trader' = g.trader
                /\ result' = [op |-> "day_trader_strategy",
                              signal |-> IF g.execute THEN strength ELSE 0,
                              reason |-> g.reason,
                              limit_reached_on |-> result.limit_reached_on]
    /\ UNCHANGED <<variant, current_strategy, consecutive_same_strategy,
                   strategy_changes, previous_regime, input, botVars,
                   historical_regimes, last_buy_price, last_trade_time,
                   historical_signals, historical_results, today, factory,
                   current_position, entry_price, orders, trades>>

\* record_trade_result(trade_type, entry_price, exit_price, profit) with a
\* positive entry_price: closes tells whether exit_price and profit are
\* given, profit_percent is profit / entry_price; the entry of the history
\* is named by the number of the call
RecordTradeResult(trade_type, price, closes, profit_percent) ==
    /\ cycles' = cycles + 1
    /\ LET d == [day_trader EXCEPT
                    !.last_trade_time = "set",
                    !.last_trade_type = trade_type,
                    !.last_trade_price = IF trade_type = "BUY" THEN price ELSE @]
           e == IF closes
                THEN [d EXCEPT
                        !.daily_profit = @ + profit_percent,
                        !.daily_trades = @ + 1,
                        !.performance_history =
                            KeepLast(Append(@, cycles + 1), PerformanceHistoryCap)]
                ELSE d
       IN  /\ day_trader' = e
           /\ result' = [op |-> "record_trade_result", signal |-> 0, reason |-> "none",
                         limit_reached_on |-> LimitReachedOn(e, result.limit_reached_on)]
    /\ UNCHANGED <<variant, current_strategy, consecutive_same_strategy,
                   strategy_changes, previous_regime, input, botVars,
                   historical_regimes, last_buy_price, last_trade_time,
                   historical_signals, historical_results, today, factory,
                   current_position, entry_price, orders, trades>>

\* midnight
NextDay ==
    /\ today < MaxDays
    /\ today' = today + 1
    /\ UNCHANGED <<selectorVars, input, botVars, historical_regimes, last_buy_price,
                   last_trade_time, historical_signals, historical_results,
                   day_trader, factory, current_position, entry_price, orders, trades>>

NextTrader ==
    \/ /\ cycles < MaxTraderCalls
       /\ \E n \in {5, 50}, strength \in {-1, 0, 1}, price \in {100, 102},
             interval_over \in BOOLEAN, optimised \in BOOLEAN :
             DayTraderStrategy(n, strength, price, interval_over, optimised)
    \/ /\ cycles < MaxTraderCalls
       /\ \E trade_type \in {"BUY", "SELL"}, closes \in BOOLEAN,
             profit_percent \in {-10, 15} :
             RecordTradeResult(trade_type, 100, closes, profit_percent)
    \/ NextDay

SpecTrader == InitTrader /\ [][NextTrader]_vars

\* C30: once daily_profit has reached daily_profit_target or fallen to
\* -max_daily_loss, every later day_trader_strategy call on the same calendar
\* day returns signal 0, and the daily counters are reset only by a call made
\* on a later calendar day.
C30_DailyLimitsStopTrading ==
    /\ [][(/\ result'.op = "day_trader_strategy"
           /\ cycles' = cycles + 1
           /\ result.limit_reached_on = today)
            => result'.signal = 0]_vars
    /\ [][day_trader'.current_day # day_trader.current_day
            => /\ result'.op = "day_trader_strategy"
               /\ cycles' = cycles + 1
               /\ today > day_trader.current_day]_vars

-----------------------------------------------------------------------------
(* The history buffers: AdaptiveStrategy.update_historical_data, the
   performance history of the day trader and the regime history the enhanced
   and the small-capital decision functions append to.  One instance is
   followed over a long run of calls. *)

\* calls on the instance
MaxHistoryCalls == 501

\* max_history of update_historical_data
max_history == 500

\* the instances followed: the three selectors and the day trader
HistoryOwners == Variants \cup {"DAY_TRADER"}

\* the scores every scorer call of the run hands to the selector
SteadyPerf == [s \in Strategies |-> 50]

InitHistory ==
    /\ variant \in HistoryOwners
    /\ current_strategy = None
    /\ consecutive_same_strategy = 0
    /\ strategy_changes = <<>>
    /\ previous_regime = None
    /\ cycles = 0
    /\ result = IF variant = "DAY_TRADER"
                THEN [op |-> "none", signal |-> 0, reason |-> "none",
                      limit_reached_on |-> 0]
                ELSE NoResult
    /\ input = None
    /\ BotStart
    /\ historical_regimes = <<>>
    /\ HostStart

\* AdaptiveStrategy.update_historical_data(signal, actual_price_change)
UpdateHistoricalData(sig, actual_price_change) ==
    /\ variant = "ADAPTIVE"
    /\ cycles' = cycles + 1
    /\ historical_signals' = KeepLast(Append(historical_signals, sig), max_history)
    /\ historical_results' =
         IF Len(historical_signals) + 1 > max_history
         THEN KeepLast(Append(historical_results, actual_price_change), max_history)
         ELSE Append(historical_results, actual_price_change)
    /\ result' = [NoResult EXCEPT !.op = "update_historical_data"]
    /\ UNCHANGED <<variant, current_strategy, consecutive_same_strategy,
                   strategy_changes, previous_regime, input, botVars,
                   historical_regimes, last_buy_price, last_trade_time,
                   day_trader, today, factory, current_position, entry_price,
                   orders, trades>>

\* every call hands over the signal and the price change of its own cycle,
\* named here by the number of the call; run_bot records a closed position
\* as a 'SELL' with exit price and profit
NextHistory ==
    \/ /\ cycles < MaxHistoryCalls
       /\ UpdateHistoricalData(cycles + 1, cycles + 1)
    \/ /\ cycles < MaxHistoryCalls
       /\ \E live \in {0, 1} :
             HystereticDecision("ranging_narrow", FALSE, "neutral", SteadyPerf, live, TRUE)
    \/ /\ cycles < MaxHistoryCalls
       /\ variant = "DAY_TRADER"
       /\ RecordTradeResult("SELL", 100, TRUE, 15)

SpecHistory == InitHistory /\ [][NextHistory]_vars

\* the buffer q holds the entries of the latest Len(q) calls, oldest first
MostRecentInOrder(q) ==
    \A i \in 1..Len(q) : q[i] = cycles - Len(q) + i

\* C24: every history buffer stays bounded after any number of cycles and
\* keeps its most recent entries in order: historical_signals and
\* historical_results have equal length of at most 500, performance_history
\* has at most 30 entries, and the regime history of the enhanced and the
\* small-capital selector does not outgrow the largest of these caps.
C24_HistoryBuffersBounded ==
    /\ Len(historical_signals) = Len(historical_results)
    /\ Len(historical_signals) <= max_history
    /\ MostRecentInOrder(historical_signals)
    /\ MostRecentInOrder(historical_results)
    /\ Len(day_trader.performance_history) <= PerformanceHistoryCap
    /\ MostRecentInOrder(day_trader.performance_history)
    /\ Len(historical_regimes) <= max_history

====
